---- MODULE Spec2Model ----
(***************************************************************************)
(* Model of the reactive core of domutils-library (src/reactive/signals.js, *)
(* kept as src/unnamed/part_002): createSignal, createEffect,               *)
(* createComputed and $state, with the module-level EFFECT_STACK and        *)
(* EFFECT_DEPS.                                                             *)
(*                                                                         *)
(* JavaScript is single threaded and every notification is synchronous and *)
(* re-entrant, so the model is a small-step machine with an explicit call  *)
(* stack.  User functions (effect bodies, computed bodies, subscribe        *)
(* callbacks) are short instruction lists; which functions exist is the    *)
(* program `prog`, chosen at Init.  A top-level API call is enabled only   *)
(* when the stack is empty; while the stack is non-empty exactly one step  *)
(* is enabled, the next step of the innermost call.                        *)
(***************************************************************************)
EXTENDS Integers, Sequences, FiniteSets, TLC

\* ---------------------------------------------------------------- bounds
MaxVal == 2          \* signal and property values are 0..MaxVal
MaxInv == 2          \* top-level calls stop once a runner has started more than MaxInv bodies

\* JavaScript's undefined / null (an unset `cached`, a null `cleanup`, an absent property)
Undef == -1
\* a function value (what reading state.subscribe or state.inspect gives)
Func == -2

Val == 0 .. MaxVal

\* ---------------------------------------------------------------- names
Signals   == {"s", "t"}
Effects   == {"E1", "E2"}
Computeds == {"C1"}
Callbacks == {"K1", "K2", "G1", "G2"}
Runners   == Effects \cup Computeds
StProps   == {"x", "y"}           \* properties of the proxy st
Props     == StProps \cup {"x2"}    \* and property x of a second proxy, st2
\* names that handler.get of a proxy answers itself, before looking at the record
Reserved  == {"subscribe", "inspect"}
CellPool  == <<"p1", "p2", "p3", "p4">>
Sources   == Signals \cup {CellPool[i] : i \in DOMAIN CellPool}
None      == "none"
Main      == "main"

VARIABLES
  prog,            \* the user program: which function bodies exist (fixed at Init)
  value,           \* createSignal: `value` of each signal
  subs,            \* `__subs` of each dependency source, in Set insertion order
  EFFECT_STACK,    \* stack of active runners
  EFFECT_DEPS,     \* runner -> set of sources ({} when the WeakMap has no entry)
  cleanup,         \* createEffect / createComputed: `cleanup` (invocation that returned it, or Undef)
  cached,          \* createComputed: `cached`
  dirty,           \* createComputed: `dirty`
  target,          \* $state: the proxied record, Undef for an absent property
  propSig,         \* STATE_PROP_SIGNALS.get(target): property -> cell, or None
  globalSubs,      \* $state: globalSubs, in insertion order
  made,            \* runners whose constructor has been entered
  bound,           \* runners whose constructor has returned (disposer / getter in hand)
  stack,           \* the JavaScript call stack (frames of user functions and notification passes)
  \* ---- observation only (no step reads these to decide what the code does)
  log,             \* what happened during the current top-level call
  inv,             \* runner -> number of body invocations started
  lastReads,       \* runner -> sources its latest body execution has read
  disposed,        \* effects whose dispose() has returned
  zombie,          \* effects whose fn was invoked by a write begun after their dispose() returned
  unsubbed,        \* <<signal, callback>>: the unsubscribe function was called since the last subscribe
  expect,          \* signal -> value the most recent set call produced (initial before any set)
  lastRet,         \* runner -> number of its latest completed invocation if that returned a cleanup, else Undef
  cleaned,         \* runner -> the cleanups called so far (by invocation number), in call order
  execs,           \* computed -> fn executions started since its dependencies last changed (or creation)
  gets,            \* computed -> <<value, quiet>> of its first few getter calls since then, in order
  \* ---- utils/storage.js
  localStorage,    \* window.localStorage: key -> item (its text, or absent)
  sessionStorage,  \* window.sessionStorage
  now,             \* Date.now()
  ret,             \* what the latest storage call returned (or that it threw)
  \* ---- observation only
  call,            \* the latest storage call: its arguments, and what had been stored under its key
  stored,          \* type -> key -> the value most recently given to setStorage, until removed
  expiring,        \* type -> key -> value and expiration most recently given by setStorageWithExpiration
  \* ---- core/events.js
  listeners,       \* the element's event listener list, in the order added
  elementHandlers, \* elementHandlers.get(el): the records, [] when the WeakMap has no entry
  estack,          \* the call stack: dispatches in progress and wrapped functions running
  nreg,            \* calls of once so far (each makes its own closures)
  ndisp,           \* event type -> events of that type dispatched on the element so far
  gn,              \* handler g's counter n
  \* ---- observation only
  regs,            \* the calls of once: arguments, ndisp at that time, types cut before any event
  invoked          \* the handler invocations made by wrapped functions, in order

codeVars == <<value, subs, EFFECT_STACK, EFFECT_DEPS, cleanup, cached, dirty,
              target, propSig, globalSubs, made, bound>>
compObs  == <<execs, gets>>
obsVars  == <<log, inv, lastReads, disposed, zombie, unsubbed, expect, lastRet, cleaned,
              compObs>>
storageVars == <<localStorage, sessionStorage, now, ret, call, stored, expiring>>
eventVars == <<listeners, elementHandlers, estack, nreg, ndisp, gn, regs, invoked>>
utilVars == <<storageVars, eventVars>>
vars     == <<prog, codeVars, stack, obsVars, utilVars>>

\* ---------------------------------------------------------------- helpers
Min(a, b) == IF a < b THEN a ELSE b
Has(seq, x) == \E i \in DOMAIN seq : seq[i] = x
Remove(seq, x) == SelectSeq(seq, LAMBDA y : y # x)
\* (variant: a new entry goes before the present ones)
SetAdd_Front(seq, x) == IF Has(seq, x) THEN seq ELSE <<x>> \o seq
\* Set.prototype.add: appended unless already present
SetAdd(seq, x) == IF Has(seq, x) THEN seq ELSE Append(seq, x)
Last(seq) == seq[Len(seq)]
Front(seq) == SubSeq(seq, 1, Len(seq) - 1)

\* an instruction of a user function
I(op, x, y, v) == [op |-> op, x |-> x, y |-> y, v |-> v]
\* an entry of the log: what happened (ev), to which function (who), on which
\* source (src), three numbers (n, old, m), a set of runners (rd) and a
\* sequence of subscribers (at)
Ev(ev, who, src, n, m) ==
  [ev |-> ev, who |-> who, src |-> src, n |-> n, old |-> Undef, m |-> m, rd |-> {},
   at |-> <<>>]
\* a write: at stack depth n, of source src, from value old to value m, with
\* readers rd and the source's subscribers at when the write began
Ch(ev, src, n, old, m, rd, at) ==
  [ev |-> ev, who |-> None, src |-> src, n |-> n, old |-> old, m |-> m, rd |-> rd,
   at |-> at]

\* a plain object with no property (a function's local `copy` before state.inspect())
NoSnap == [p \in StProps \cup Reserved |-> Undef]

\* A frame of a user function.  snap: its local object `copy`.  k: which invocation of the owner's function
\* this is (it names the closures the invocation creates).
BodyFrame(owner, code, k) ==
  [kind |-> "body", owner |-> owner, code |-> code, pc |-> 1, acc |-> Undef, k |-> k,
   arr |-> <<>>, i |-> 0, src |-> None, then |-> None, old |-> Undef, new |-> Undef,
   gone |-> {}, snap |-> NoSnap]
\* A frame of a forEach over a snapshot of a source's subscribers; `then` is
\* what the caller does after it, with (src, old, new).  gone (observation,
\* with the callbacks unsubscribed from src by then):
\* the effects whose dispose() had returned when the write began.
PassFrame(arr, src, then, old, new, gone) ==
  [kind |-> "pass", owner |-> None, code |-> <<>>, pc |-> 0, acc |-> Undef, k |-> 0,
   arr |-> arr, i |-> 1, src |-> src, then |-> then, old |-> old, new |-> new,
   gone |-> gone, snap |-> NoSnap]
\* A frame of notifyGlobal: globalSubs.forEach over the live Set; i is the
\* place of the entry to visit next.  arr (observation): the callbacks that are
\* registered when the forEach starts.
GPassFrame(src, old, new, registered) ==
  [kind |-> "gpass", owner |-> None, code |-> <<>>, pc |-> 0, acc |-> Undef, k |-> 0,
   arr |-> registered, i |-> 1, src |-> src, then |-> None, old |-> old, new |-> new,
   gone |-> {}, snap |-> NoSnap]

\* ---------------------------------------------------------------- user programs
\* The functions the user passes to the library.  Each is a list of
\* instructions ending with "ret"; `x` of "ret" says what the function
\* returns: nothing, a cleanup closure, or the value it computed (acc).
Get(s)        == I("get", s, None, 0)        \* acc = s.get()
SetLit(s, v)  == I("set", s, "lit", v)       \* s.set(v)
SetFn(s)      == I("set", s, "fn", 0)        \* s.set(prev => Math.min(prev + 1, MaxVal))
MkEff(e)      == I("mkeff", e, None, 0)      \* createEffect(fn_e) ...
Bind(r)       == I("bind", r, None, 0)       \* ... its result assigned to a variable
Dispose(e)    == I("dispose", e, None, 0)    \* if (dispose_e) dispose_e()
Sub(s, k)     == I("sub", s, k, 0)           \* unsub_k = s.subscribe(k)
Unsub(s, k)   == I("unsub", s, k, 0)         \* unsub_k()
MkComp(c)     == I("mkcomp", c, None, 0)     \* createComputed(fn_c) ...
Ensure(c)     == I("ensure", c, None, 0)     \* the getter: if (dirty) recompute();
Load(c)       == I("load", c, None, 0)       \*             return cached;   (acc = c())
PGet(p)       == I("pget", p, None, 0)       \* acc = state.p
PSet(p, v)    == I("pset", p, None, v)       \* state.p = v
PDel(p)       == I("pdel", p, None, 0)       \* delete state.p
GSub(g)       == I("gsub", g, None, 0)       \* ungsub_g = state.subscribe(g)
GUnsub(g)     == I("gunsub", g, None, 0)     \* if (ungsub_g) ungsub_g()
Inspect       == I("inspect", None, None, 0) \* copy = state.inspect()
SnapSet(p, v) == I("snapset", p, None, v)    \* copy.p = v
Throw         == I("throw", None, None, 0)   \* throw new Error()
Ret(what)     == I("ret", what, None, 0)

Progs == {"subs", "effect", "killer", "selfdispose", "reentrant",
          "computed", "compcl", "compthrow", "state", "nested", "churn",
          "thrower", "pthrower", "props",
          "inspect", "dynamic", "inner", "gchurn", "order",
          "viacomp", "viathrow", "reserved"}

Body(p, f) ==
  CASE p = "subs" /\ f = "K1" -> <<Get("s"), Ret("none")>>
    [] p = "subs" /\ f = "K2" -> <<Get("s"), Ret("none")>>
    [] p = "effect" /\ f = "E1" -> <<Get("s"), Ret("cleanup")>>
    [] p = "effect" /\ f = "E2" -> <<Get("s"), Get("t"), Ret("none")>>
    [] p = "killer" /\ f = "K1" -> <<Dispose("E1"), Ret("none")>>
    [] p = "killer" /\ f = "E1" -> <<Get("s"), Ret("cleanup")>>
    [] p = "selfdispose" /\ f = "E1" -> <<Get("s"), Dispose("E1"), Get("t"), Ret("none")>>
    \* s.set(Math.min(acc + 1, MaxVal))
    [] p = "reentrant" /\ f = "E1" -> <<Get("s"), I("set", "s", "acc", 0), Ret("cleanup")>>
    [] p = "reentrant" /\ f = "E2" -> <<Get("s"), Ret("none")>>
    [] p = "computed" /\ f = "C1" -> <<Get("s"), Ret("value")>>
    [] p = "computed" /\ f = "K1" -> <<Ensure("C1"), Load("C1"), Ret("none")>>
    [] p = "compcl" /\ f = "C1" -> <<Get("s"), Ret("cleanup")>>
    [] p = "compthrow" /\ f = "C1" -> <<Get("s"), Throw>>
    [] p = "state" /\ f = "E1" -> <<PGet("x"), Ret("none")>>
    [] p = "churn" /\ f = "K1" -> <<Unsub("s", "K2"), Ret("none")>>
    [] p = "churn" /\ f = "K2" -> <<Sub("s", "K1"), Ret("none")>>
    [] p = "thrower" /\ f = "K1" -> <<Throw>>
    [] p = "thrower" /\ f = "K2" -> <<Get("s"), Ret("none")>>
    [] p = "thrower" /\ f = "E1" -> <<Get("s"), Throw>>
    [] p = "pthrower" /\ f = "E1" -> <<PGet("x"), Throw>>
    [] p = "pthrower" /\ f = "E2" -> <<PGet("x"), Ret("none")>>
    [] p = "props" /\ f = "E1" -> <<PGet("x"), Ret("none")>>
    [] p = "props" /\ f = "E2" -> <<PGet("y"), PGet("x2"), Ret("none")>>
    [] p = "inspect" /\ f = "E1" -> <<Inspect, SnapSet("x", 2), Ret("none")>>
    [] p = "inspect" /\ f = "C1" -> <<Inspect, Ret("none")>>
    [] p = "inspect" /\ f = "E2" -> <<PGet("y"), Ret("none")>>
    \* if (acc > 0) acc = t.get()
    [] p = "dynamic" /\ f = "E1" -> <<Get("s"), I("getif", "t", None, 0), Ret("none")>>
    \* if (acc > 0) acc = state.y
    [] p = "dynamic" /\ f = "C1" -> <<PGet("x"), I("pgetif", "y", None, 0), Ret("value")>>
    [] p = "inner" /\ f = "E1" ->
         \* if (!C1) C1 = createComputed(fn_C1); if (!E2) E2 = createEffect(fn_E2)
         <<Get("s"), I("mkcomp", "C1", "once", 0), Bind("C1"),
           I("mkeff", "E2", "once", 0), Bind("E2"), PGet("y"), Ret("none")>>
    [] p = "inner" /\ f = "C1" -> <<Get("t"), Ret("value")>>
    [] p = "inner" /\ f = "E2" -> <<PGet("x"), Ret("none")>>
    [] p = "order" /\ f = "E1" -> <<Get("s"), Ret("none")>>
    [] p = "viacomp" /\ f = "C1" -> <<Get("s"), Ret("value")>>
    [] p = "viathrow" /\ f = "C1" -> <<Get("s"), Throw>>
    \* state.y = C1 ? C1() : undefined
    [] p \in {"viacomp", "viathrow"} /\ f = "E1" ->
         <<Ensure("C1"), Load("C1"), I("pset", "y", "acc", 0), Ret("none")>>
    [] p = "reserved" /\ f = "E1" -> <<PGet("subscribe"), PGet("inspect"), Ret("none")>>
    [] p = "gchurn" /\ f = "G1" -> <<GUnsub("G2"), Ret("none")>>
    [] p = "gchurn" /\ f = "G2" -> <<GSub("G1"), Ret("none")>>
    \* state.y = acc
    [] p = "nested" /\ f = "E1" -> <<PGet("x"), I("pset", "y", "acc", 0), Ret("none")>>
    [] OTHER -> <<Ret("none")>>

\* The top-level script: the calls it may make, in any order.
Menu(p) ==
  CASE p = "subs" ->
         {<<Sub("s", "K1")>>, <<Sub("s", "K2")>>, <<Unsub("s", "K1")>>, <<Unsub("s", "K2")>>,
          <<Get("s")>>, <<SetFn("s")>>}
         \cup {<<SetLit("s", v)>> : v \in Val}
    [] p = "effect" ->
         {<<MkEff("E1"), Bind("E1")>>, <<MkEff("E2"), Bind("E2")>>,
          <<Dispose("E1")>>, <<Dispose("E2")>>, <<SetFn("s")>>, <<SetFn("t")>>}
         \cup {<<SetLit("s", v)>> : v \in Val}
    [] p = "killer" ->
         {<<MkEff("E1"), Bind("E1")>>, <<Sub("s", "K1")>>, <<Dispose("E1")>>}
         \cup {<<SetLit("s", v)>> : v \in Val}
    [] p = "selfdispose" ->
         {<<MkEff("E1"), Bind("E1")>>, <<Dispose("E1")>>}
         \cup {<<SetLit(s, v)>> : s \in {"s", "t"}, v \in Val}
    [] p = "reentrant" ->
         {<<MkEff("E1"), Bind("E1")>>, <<MkEff("E2"), Bind("E2")>>,
          <<Dispose("E1")>>, <<Get("s")>>}
         \cup {<<SetLit("s", v)>> : v \in Val}
    [] p = "computed" ->
         {<<MkComp("C1"), Bind("C1")>>, <<Ensure("C1"), Load("C1")>>, <<Sub("s", "K1")>>}
         \cup {<<SetLit("s", v)>> : v \in Val}
    [] p \in {"compcl", "compthrow"} ->
         {<<MkComp("C1"), Bind("C1")>>, <<Ensure("C1"), Load("C1")>>}
         \cup {<<SetLit("s", v)>> : v \in Val}
    [] p = "state" ->
         {<<MkEff("E1"), Bind("E1")>>, <<Dispose("E1")>>, <<PDel("x")>>, <<PGet("x")>>,
          <<GSub("G1")>>}
         \cup {<<PSet(q, v)>> : q \in StProps, v \in Val}
    [] p = "churn" ->
         {<<Sub("s", "K1")>>, <<Sub("s", "K2")>>, <<Unsub("s", "K1")>>, <<Unsub("s", "K2")>>}
         \cup {<<SetLit("s", v)>> : v \in Val}
    [] p = "thrower" ->
         {<<Sub("s", "K1")>>, <<Sub("s", "K2")>>, <<MkEff("E1"), Bind("E1")>>}
         \cup {<<SetLit("s", v)>> : v \in Val}
    [] p = "pthrower" ->
         {<<MkEff("E1"), Bind("E1")>>, <<MkEff("E2"), Bind("E2")>>, <<PDel("x")>>}
         \cup {<<PSet("x", v)>> : v \in Val}
    [] p = "props" ->
         {<<MkEff("E1"), Bind("E1")>>, <<MkEff("E2"), Bind("E2")>>, <<PDel("y")>>}
         \cup {<<PSet(q, v)>> : q \in Props, v \in {1, 2}}
    [] p = "inspect" ->
         {<<MkEff("E1"), Bind("E1")>>, <<MkEff("E2"), Bind("E2")>>,
          <<MkComp("C1"), Bind("C1")>>, <<PDel("x")>>, <<Inspect, SnapSet("y", 1)>>}
         \cup {<<PSet(q, v)>> : q \in StProps, v \in {1, 2}}
    [] p = "dynamic" ->
         {<<MkEff("E1"), Bind("E1")>>, <<MkComp("C1"), Bind("C1")>>,
          <<Ensure("C1"), Load("C1")>>, <<SetLit("t", 1)>>, <<SetFn("t")>>, <<PSet("y", 1)>>, <<PSet("y", 2)>>}
         \cup {<<SetLit("s", v)>> : v \in {0, 1}} \cup {<<PSet("x", v)>> : v \in {0, 1}}
    [] p = "inner" ->
         {<<MkEff("E1"), Bind("E1")>>, <<SetFn("s")>>, <<SetFn("t")>>, <<PSet("x", 1)>>,
          <<PSet("y", 1)>>, <<PSet("y", 2)>>}
    [] p = "gchurn" ->
         {<<GSub("G1")>>, <<GSub("G2")>>, <<GUnsub("G1")>>, <<GUnsub("G2")>>, <<PDel("x")>>}
         \cup {<<PSet("x", v)>> : v \in Val}
    [] p = "order" ->
         {<<MkEff("E1"), Bind("E1")>>, <<Sub("s", "K1")>>, <<Unsub("s", "K1")>>,
          <<SetFn("s"), SetFn("s")>>, <<SetLit("s", 0)>>}
    [] p \in {"viacomp", "viathrow"} ->
         {<<MkComp("C1"), Bind("C1")>>, <<MkEff("E1"), Bind("E1")>>, <<Ensure("C1"), Load("C1")>>,
          <<Dispose("E1")>>}
         \cup {<<SetLit("s", v)>> : v \in Val}
    [] p = "reserved" ->
         {<<MkEff("E1"), Bind("E1")>>, <<GSub("G1")>>, <<Inspect>>, <<PSet("x", 1)>>}
         \cup {<<PSet(q, v)>> : q \in Reserved, v \in {1, 2}}
         \cup {<<PDel(q)>> : q \in Reserved}
    [] p = "nested" ->
         {<<MkEff("E1"), Bind("E1")>>, <<GSub("G1")>>, <<GSub("G2")>>}
         \cup {<<PSet(q, v)>> : q \in StProps, v \in Val}
    [] OTHER -> {}


\* ---------------------------------------------------------------- the library
\* (variant: the runner is recorded in EFFECT_DEPS but never added to __subs)
trackDependency_Forgets(sb, runner, key) == sb
\* _trackDependency(runner, signalKey): the source's side
trackDependency(sb, runner, key) == [sb EXCEPT ![key] = SetAdd(@, runner)]
\* _trackDependency(runner, signalKey): the runner's side (EFFECT_DEPS)
trackDeps(dp, runner, key) == [dp EXCEPT ![runner] = @ \cup {key}]

\* (variant: the runner that was entered first is taken as the active one)
Active_Outermost(st) == IF st = <<>> THEN None ELSE Head(st)
\* const active = EFFECT_STACK[EFFECT_STACK.length - 1]
Active(st) == IF st = <<>> THEN None ELSE Last(st)

\* (variant: a function argument is not applied to the current value)
NewValue_IgnoresUpdater(mode, lit, acc, cur) ==
  IF mode = "acc" THEN Min(acc + 1, MaxVal) ELSE lit
\* set: typeof newVal === 'function' ? newVal(value) : newVal
NewValue(mode, lit, acc, cur) ==
  CASE mode = "fn"  -> Min(cur + 1, MaxVal)
    [] mode = "acc" -> Min(acc + 1, MaxVal)
    [] OTHER        -> lit

\* (variant: the early return is missing)
Notifies_Always(old, new) == TRUE
\* set: `if (old === value) return value;` decides whether subscribers run
Notifies(old, new) == old # new

\* (variant: the proxy's set trap notifies on every assignment)
StateNotifies_Always(old, new) == TRUE
\* $state set: `if (old === value) { target[prop] = value; return true; }`
StateNotifies(old, new) == old # new

\* set / $state set: Array.from(subs), the snapshot a pass iterates
Snapshot(sb, key) == sb[key]

\* (variant: the function subscribe returns removes nothing)
Unsubscribed_Keeps(sb, fn) == sb
\* subscribe: return () => subs.delete(fn)
Unsubscribed(sb, fn) == Remove(sb, fn)

\* (variant: the runner's previous subscriptions are left in place)
Unsubscribe_Leaves(sb, dp, r) == sb
\* runner / recompute / disposer: prevDeps.forEach(k => k.__subs.delete(runner))
Unsubscribe(sb, dp, r) ==
  [k \in Sources |-> IF k \in dp[r] THEN Remove(sb[k], r) ELSE sb[k]]

\* (variant: the previous cleanup is dropped without being called)
CalledCleanup_Never(cl) == <<>>
\* runner / recompute / disposer: `if (typeof cleanup === 'function') cleanup()`
CalledCleanup(cl) == IF cl # Undef THEN <<cl>> ELSE <<>>

\* (variant: recompute keeps a returned function as the value, not as a cleanup)
KeptCleanup_ValueOnly(f, what, cl, k) ==
  IF what = "cleanup" /\ f \in Effects THEN k ELSE cl
\* runner: `if (typeof maybeCleanup === 'function') cleanup = maybeCleanup`;
\* recompute: `if (typeof result === 'function') cleanup = result`
\* (what: what fn returned; cl: cleanup before; k: the invocation that returns)
KeptCleanup(f, what, cl, k) == IF what = "cleanup" THEN k ELSE cl

\* (variant: dirty is never cleared)
DirtyAfter_Stays(d) == d
\* recompute: `dirty = false` once fn has returned
DirtyAfter(d) == FALSE

\* _ensurePropSignalFor(target, prop): the property's cell, a new object if it has none
FreshCell(ps, dp) ==
  LET InUse(c) == (\E q \in Props : ps[q] = c) \/ (\E r \in Runners : c \in dp[r])
  IN CellPool[CHOOSE i \in DOMAIN CellPool :
                /\ ~InUse(CellPool[i])
                /\ \A j \in 1 .. (i - 1) : InUse(CellPool[j])]
\* (variant: one cell per proxy, shared by all its properties)
ensurePropSignalFor_Shared(ps, dp, prop) ==
  IF ps[prop] # None THEN ps
  ELSE IF \E q \in Props : ps[q] # None
       THEN [ps EXCEPT ![prop] = ps[CHOOSE q \in Props : ps[q] # None]]
       ELSE [ps EXCEPT ![prop] = FreshCell(ps, dp)]
ensurePropSignalFor(ps, dp, prop) ==
  IF ps[prop] # None THEN ps ELSE [ps EXCEPT ![prop] = FreshCell(ps, dp)]

\* (variant: inspect copies through the proxy, which reads every own property)
InspectReads_ThroughProxy(tg) == {p \in StProps : tg[p] # Undef}
\* handler.get: `if (prop === 'inspect') return () => Object.assign({}, target)`,
\* before the tracking code: the properties inspect() reads through the proxy
InspectReads(tg) == {}

\* (variant: a subscriber's exception ends the forEach that called it)
Caught_EndsPass(st) ==
  IF Len(st) >= 2 /\ st[Len(st) - 1].kind = "pass" /\ st[Len(st)].owner \in Callbacks
  THEN SubSeq(st, 1, Len(st) - 2) ELSE Front(st)
\* try { fn(); } catch (err) { ... }: the exception of the innermost function is
\* caught by its caller (the forEach of a pass, or the runner's own try), which goes on
Caught(st) == Front(st)

\* (variant: the pop is skipped when fn throws)
PoppedOnThrow_Skipped(st, f) == st
\* runner / recompute: `finally { EFFECT_STACK.pop(); }` after fn of f threw
\* (a subscribe callback is no runner and was never pushed)
PoppedOnThrow(st, f) == IF f \in Runners THEN Front(st) ELSE st

\* (variant: the callbacks are given the stored value as the old value too)
GlobalArgs_NewOnly(key, oldVal, newVal) == <<key, newVal, newVal>>
\* notifyGlobal: fn(key, oldVal, newVal)
GlobalArgs(key, oldVal, newVal) == <<key, oldVal, newVal>>

\* ---------------------------------------------------------------- the machine
Idle    == stack = <<>>
Top     == stack[Len(stack)]
InBody  == stack # <<>> /\ Top.kind = "body"
InPass  == stack # <<>> /\ Top.kind = "pass"
Instr   == Top.code[Top.pc]
At(op)  == InBody /\ Instr.op = op
\* the stack with the innermost function moved past its current instruction
Stepped == [stack EXCEPT ![Len(stack)].pc = @ + 1]
\* `if (!made_r)`: the runner the instruction would create exists already
Made    == Instr.y = "once" /\ Instr.x \in made

compVars  == <<cached, dirty>>
stateVars == <<target, propSig, globalSubs>>

\* runners that, as far as an observer can tell, must be re-run when `src` changes:
\* constructed, not disposed, and their latest execution read `src`
Readers(src) == {r \in made \ disposed : src \in lastReads[r]}

\* the globalSubs of the proxy that property p belongs to (nothing subscribes to st2)
GlobalsOf(p) == IF p \in StProps \cup Reserved THEN globalSubs ELSE <<>>

\* the subscribers of the cell the map holds for property p
CellSubs(p) == IF propSig[p] # None THEN subs[propSig[p]] ELSE <<>>

\* a dependency of computed c has changed: its counts start afresh
ResetExecs(changed, src) ==
  [c \in Computeds |-> IF changed /\ src \in lastReads[c] THEN 0 ELSE execs[c]]
ResetGets(changed, src) ==
  [c \in Computeds |-> IF changed /\ src \in lastReads[c] THEN <<>> ELSE gets[c]]

\* The runner of createEffect (and recompute of createComputed) up to the call
\* of fn: unsubscribe from the previous dependencies, call the previous
\* cleanup, push the runner; fn's frame goes on top of `base`.  late: the
\* caller is the pass of a write that began after r's dispose() had returned.
StartRunner(r, base, lg, late) ==
  /\ subs' = Unsubscribe(subs, EFFECT_DEPS, r)
  /\ EFFECT_DEPS' = [EFFECT_DEPS EXCEPT ![r] = {}]
  /\ cleanup' = [cleanup EXCEPT ![r] = Undef]
  /\ EFFECT_STACK' = Append(EFFECT_STACK, r)
  /\ stack' = Append(base, BodyFrame(r, Body(prog, r), inv[r]))
  /\ log' = lg \o [j \in DOMAIN CalledCleanup(cleanup[r]) |->
                     Ev("cleanup", r, None, CalledCleanup(cleanup[r])[j], 0)]
                \o <<Ev("body", r, None, inv[r], 0)>>
  /\ cleaned' = [cleaned EXCEPT ![r] = @ \o CalledCleanup(cleanup[r])]
  \* a function that returns a cleanup creates a closure each time it runs: its
  \* invocations are numbered, which names the closures
  /\ inv' = IF \E i \in DOMAIN Body(prog, r) : Body(prog, r)[i] = Ret("cleanup")
            THEN [inv EXCEPT ![r] = @ + 1] ELSE inv
  /\ lastReads' = [lastReads EXCEPT ![r] = {}]
  /\ zombie' = IF late THEN zombie \cup {r} ELSE zombie
  /\ execs' = IF r \in Computeds THEN [execs EXCEPT ![r] = Min(@ + 1, 3)] ELSE execs
  /\ UNCHANGED <<utilVars, prog, value, compVars, stateVars, disposed, unsubbed, expect, lastRet, gets>>

\* A top-level call of the script (only between calls; the log is emptied when it returns).
Call ==
  /\ Idle
  /\ \A r \in Runners : inv[r] <= MaxInv
  /\ \E code \in Menu(prog) :
       /\ CASE code[1].op \in {"mkeff", "mkcomp"} -> code[1].x \notin made
            [] code[1].op \in {"dispose", "ensure"} -> code[1].x \in bound
            [] code[1].op = "unsub"   -> Has(subs[code[1].x], code[1].y)
            [] code[1].op = "gunsub"  -> Has(globalSubs, code[1].x)
            [] OTHER                  -> TRUE
       /\ stack' = <<BodyFrame(Main, code \o <<Ret("none")>>, 0)>>
  /\ UNCHANGED <<utilVars, prog, codeVars, obsVars>>

\* get(): track the active runner, return value
DoGet ==
  /\ At("get") \/ (At("getif") /\ Top.acc > 0)
  /\ LET s == Instr.x
         active == Active(EFFECT_STACK)
     IN /\ subs' = IF active # None THEN trackDependency(subs, active, s) ELSE subs
        /\ EFFECT_DEPS' = IF active # None THEN trackDeps(EFFECT_DEPS, active, s)
                          ELSE EFFECT_DEPS
        /\ stack' = [stack EXCEPT ![Len(stack)].pc = @ + 1,
                                  ![Len(stack)].acc = value[s]]
        /\ lastReads' = IF Top.owner \in Runners
                        THEN [lastReads EXCEPT ![Top.owner] = @ \cup {s}]
                        ELSE lastReads
        /\ log' = Append(log, Ev("read", Top.owner, s, value[s], 0))
  /\ UNCHANGED <<utilVars, prog, value, EFFECT_STACK, cleanup, compVars, stateVars, made, bound,
                 inv, disposed, zombie, unsubbed, expect, lastRet, cleaned, compObs>>

\* `if (acc > 0) ...` when acc is not positive, `if (!made_r) ...` when the
\* runner exists: the statement is not executed
DoSkip ==
  /\ \/ (At("getif") \/ At("pgetif")) /\ Top.acc <= 0
     \/ (At("mkeff") \/ At("mkcomp")) /\ Made
  /\ stack' = Stepped
  /\ UNCHANGED <<utilVars, prog, codeVars, obsVars>>

\* set(newVal): store, return if unchanged, else notify a snapshot of subs
DoSet ==
  /\ At("set")
  /\ LET s   == Instr.x
         old == value[s]
         new == NewValue(Instr.y, Instr.v, Top.acc, old)
     IN /\ value' = [value EXCEPT ![s] = new]
        /\ expect' = [expect EXCEPT ![s] =
                        CASE Instr.y = "fn"  -> Min(old + 1, MaxVal)
                          [] Instr.y = "acc" -> Min(Top.acc + 1, MaxVal)
                          [] OTHER           -> Instr.v]
        /\ log' = Append(log, Ch(IF old = new THEN "same" ELSE "changed", s,
                                 Len(stack) + 1, old, Len(subs[s]), Readers(s), subs[s]))
        /\ stack' = IF Notifies(old, new)
                    THEN Append(Stepped, PassFrame(Snapshot(subs, s), s, None, old, new,
                                                   disposed \cup {k \in Callbacks : <<s, k>> \in unsubbed}))
                    ELSE Stepped
        /\ execs' = ResetExecs(old # new, s)
        /\ gets' = ResetGets(old # new, s)
  /\ UNCHANGED <<utilVars, prog, subs, EFFECT_STACK, EFFECT_DEPS, cleanup, compVars, stateVars,
                 made, bound, inv, lastReads, disposed, zombie, unsubbed, lastRet, cleaned>>

\* (variant: a signal's set iterates the live subscriber set, not a snapshot)
PassNext_Live ==
  /\ InPass /\ Top.src \in Signals /\ Top.i <= Len(subs[Top.src])
  /\ LET f == subs[Top.src][Top.i]
     IN /\ f \in Callbacks
        /\ stack' = Append([stack EXCEPT ![Len(stack)].i = @ + 1],
                           BodyFrame(f, Body(prog, f), 0))
        /\ log' = Append(log, Ev("call", f, Top.src, Len(stack), 0))
  /\ UNCHANGED <<utilVars, prog, codeVars, inv, lastReads, disposed, zombie, unsubbed, expect,
                 lastRet, cleaned, compObs>>

\* arr.forEach(fn => { try { fn(); } catch ... }): the next subscriber of the snapshot
PassNext ==
  /\ InPass /\ Top.i <= Len(Top.arr)
  /\ LET f    == Top.arr[Top.i]
         base == [stack EXCEPT ![Len(stack)].i = @ + 1]
         lg   == Append(log, Ev("call", f, Top.src, Len(stack), 0))
     IN IF f \in Runners
        THEN /\ StartRunner(f, base, lg, f \in Top.gone)
             /\ UNCHANGED <<made, bound>>
        ELSE /\ stack' = Append(base, BodyFrame(f, Body(prog, f), 0))
             /\ log' = lg
             /\ UNCHANGED <<utilVars, prog, codeVars, inv, lastReads, disposed, zombie, unsubbed, expect,
                            lastRet, cleaned, compObs>>

\* the forEach is over: a signal's set returns; $state's set goes on to
\* notifyGlobal, deleteProperty to map.delete(prop) and then notifyGlobal
PassDone ==
  /\ InPass /\ Top.i > Len(Top.arr)
  /\ stack' = IF Top.then = None THEN Front(stack)
              ELSE [stack EXCEPT ![Len(stack)] =
                      GPassFrame(Top.src, Top.old, Top.new, GlobalsOf(Top.src))]
  /\ propSig' = IF Top.then = "delcell" THEN [propSig EXCEPT ![Top.src] = None] ELSE propSig
  /\ UNCHANGED <<utilVars, prog, value, subs, EFFECT_STACK, EFFECT_DEPS, cleanup, compVars, target,
                 globalSubs, made, bound, obsVars>>

\* notifyGlobal: globalSubs.forEach(fn => { try { fn(key, oldVal, newVal); } ... })
GPassNext ==
  /\ stack # <<>> /\ Top.kind = "gpass" /\ Top.i <= Len(GlobalsOf(Top.src))
  /\ LET g == GlobalsOf(Top.src)[Top.i]
     IN /\ stack' = Append([stack EXCEPT ![Len(stack)].i = @ + 1],
                           BodyFrame(g, Body(prog, g), 0))
        \* a call of global callback g with the arguments <<key, oldVal, newVal>>
        /\ log' = LET args == GlobalArgs(Top.src, Top.old, Top.new)
                  IN Append(log, [ev |-> "gcall", who |-> g, src |-> args[1],
                                  n |-> Len(stack), old |-> args[2], m |-> args[3],
                                  rd |-> {}, at |-> Top.arr])
  /\ UNCHANGED <<utilVars, prog, codeVars, inv, lastReads, disposed, zombie, unsubbed, expect, lastRet,
                 cleaned, compObs>>

GPassDone ==
  /\ stack # <<>> /\ Top.kind = "gpass" /\ Top.i > Len(GlobalsOf(Top.src))
  /\ stack' = Front(stack)
  /\ UNCHANGED <<utilVars, prog, codeVars, obsVars>>

\* subscribe(fn): subs.add(fn)
DoSub ==
  /\ At("sub")
  /\ subs' = [subs EXCEPT ![Instr.x] = SetAdd(@, Instr.y)]
  /\ unsubbed' = unsubbed \ {<<Instr.x, Instr.y>>}
  /\ stack' = Stepped
  /\ UNCHANGED <<utilVars, prog, value, EFFECT_STACK, EFFECT_DEPS, cleanup, compVars, stateVars,
                 made, bound, log, inv, lastReads, disposed, zombie, expect, lastRet,
                 cleaned, compObs>>

\* the function subscribe returned: subs.delete(fn)
DoUnsub ==
  /\ At("unsub")
  /\ subs' = [subs EXCEPT ![Instr.x] = Unsubscribed(@, Instr.y)]
  /\ unsubbed' = unsubbed \cup {<<Instr.x, Instr.y>>}
  /\ stack' = Stepped
  /\ UNCHANGED <<utilVars, prog, value, EFFECT_STACK, EFFECT_DEPS, cleanup, compVars, stateVars,
                 made, bound, log, inv, lastReads, disposed, zombie, expect, lastRet,
                 cleaned, compObs>>

\* (variant: createEffect registers the effect without running it)
DoMkEff_Deferred ==
  /\ At("mkeff") /\ ~Made
  /\ made' = made \cup {Instr.x}
  /\ stack' = Stepped
  /\ UNCHANGED <<utilVars, prog, value, subs, EFFECT_STACK, EFFECT_DEPS, cleanup, compVars,
                 stateVars, bound, obsVars>>

\* createEffect(fn): the initial runner() call
DoMkEff ==
  /\ At("mkeff") /\ ~Made
  /\ made' = made \cup {Instr.x}
  /\ StartRunner(Instr.x, Stepped, log, FALSE)
  /\ UNCHANGED bound

\* createComputed(fn): the initial recompute() call
DoMkComp ==
  /\ At("mkcomp") /\ ~Made
  /\ made' = made \cup {Instr.x}
  /\ StartRunner(Instr.x, Stepped, log, FALSE)
  /\ UNCHANGED bound

\* createEffect / createComputed has returned: the caller holds the disposer / getter
DoBind ==
  /\ At("bind")
  /\ bound' = bound \cup {Instr.x}
  /\ stack' = Stepped
  /\ UNCHANGED <<utilVars, prog, value, subs, EFFECT_STACK, EFFECT_DEPS, cleanup, compVars,
                 stateVars, made, obsVars>>

\* the getter of a computed, first half: if (dirty) recompute()
DoEnsure ==
  /\ At("ensure")
  /\ IF Instr.x \in bound /\ dirty[Instr.x]
     THEN /\ StartRunner(Instr.x, Stepped, log, FALSE)
          /\ UNCHANGED <<made, bound>>
     ELSE /\ stack' = Stepped
          /\ UNCHANGED <<utilVars, prog, codeVars, obsVars>>

\* (variant: the getter subscribes the active runner to the sources the
\* computed depends on)
DoLoad_Tracked ==
  /\ At("load")
  /\ LET c == Instr.x
         r == IF EFFECT_STACK # <<>> THEN Last(EFFECT_STACK) ELSE None
         via == IF c \in bound /\ r # None THEN EFFECT_DEPS[c] ELSE {}
     IN /\ stack' = [stack EXCEPT ![Len(stack)].pc = @ + 1,
                                  ![Len(stack)].acc = IF c \in bound THEN cached[c] ELSE @]
        /\ subs' = [k \in Sources |-> IF k \in via THEN SetAdd(subs[k], r) ELSE subs[k]]
        /\ EFFECT_DEPS' = IF via # {} THEN [EFFECT_DEPS EXCEPT ![r] = @ \cup via] ELSE EFFECT_DEPS
  /\ UNCHANGED <<utilVars, prog, value, EFFECT_STACK, cleanup, compVars, stateVars, made, bound,
                 obsVars>>

\* the getter of a computed, second half: return cached
DoLoad ==
  /\ At("load")
  /\ LET c == Instr.x
     IN IF c \in bound
        THEN /\ stack' = [stack EXCEPT ![Len(stack)].pc = @ + 1,
                                       ![Len(stack)].acc = cached[c]]
             \* the value got, and whether no notification pass of a source c
             \* reads is in progress
             /\ gets' = LET quiet == \A j \in DOMAIN stack :
                                       stack[j].kind \in {"pass", "gpass"}
                                         => stack[j].src \notin lastReads[c]
                        IN [gets EXCEPT ![c] = IF Len(@) < 3
                                               THEN Append(@, <<cached[c], quiet>>) ELSE @]
        ELSE /\ stack' = Stepped
             /\ UNCHANGED gets
  /\ UNCHANGED <<utilVars, prog, codeVars, log, inv, lastReads, disposed, zombie, unsubbed, expect, lastRet,
                 cleaned, execs>>

\* the disposer createEffect returned (the user calls it only once it holds it)
DoDispose ==
  /\ At("dispose")
  /\ LET e == Instr.x
     IN IF e \in bound
        THEN /\ subs' = Unsubscribe(subs, EFFECT_DEPS, e)
             /\ EFFECT_DEPS' = [EFFECT_DEPS EXCEPT ![e] = {}]
             /\ cleanup' = [cleanup EXCEPT ![e] = Undef]
             /\ log' = log \o [j \in DOMAIN CalledCleanup(cleanup[e]) |->
                                 Ev("cleanup", e, None, CalledCleanup(cleanup[e])[j], 0)]
             /\ cleaned' = [cleaned EXCEPT ![e] = @ \o CalledCleanup(cleanup[e])]
             /\ disposed' = disposed \cup {e}
        ELSE UNCHANGED <<subs, EFFECT_DEPS, cleanup, log, cleaned, disposed>>
  /\ stack' = Stepped
  /\ UNCHANGED <<utilVars, prog, value, EFFECT_STACK, compVars, stateVars, made, bound,
                 inv, lastReads, zombie, unsubbed, expect, lastRet, compObs>>

\* fn returns.  In a runner: keep a returned function as cleanup, pop the
\* runner (finally).  In recompute: cleanup or cached, dirty = false, pop.
DoRet ==
  /\ At("ret")
  /\ LET f == Top.owner
         k == Top.k
     IN /\ cleanup' = IF f \in Runners THEN [cleanup EXCEPT ![f] = KeptCleanup(f, Instr.x, @, k)]
                      ELSE cleanup
        /\ EFFECT_STACK' = IF f \in Runners THEN Front(EFFECT_STACK) ELSE EFFECT_STACK
        /\ cached' = IF f \in Computeds /\ Instr.x # "cleanup"
                     THEN [cached EXCEPT ![f] = IF Instr.x = "value" THEN Top.acc ELSE Undef]
                     ELSE cached
        /\ dirty' = IF f \in Computeds THEN [dirty EXCEPT ![f] = DirtyAfter(@)] ELSE dirty
        /\ log' = CASE f \in Runners -> Append(log, Ev("end", f, Instr.x, k, 0))
                    [] f = Main     -> <<>>
                    [] OTHER        -> log
        /\ lastRet' = IF f \in Runners
                      THEN [lastRet EXCEPT ![f] = IF Instr.x = "cleanup" THEN k ELSE Undef]
                      ELSE lastRet
  /\ stack' = Front(stack)
  /\ UNCHANGED <<utilVars, prog, value, subs, EFFECT_DEPS, stateVars, made, bound,
                 inv, lastReads, disposed, zombie, unsubbed, expect, cleaned, compObs>>

\* fn throws.  A runner catches (console.error) and pops in `finally`, leaving
\* cleanup, cached and dirty as they are; a plain callback's exception is
\* caught by the forEach that called it.
DoThrow ==
  /\ At("throw")
  /\ EFFECT_STACK' = PoppedOnThrow(EFFECT_STACK, Top.owner)
  /\ log' = Append(log, Ev("threw", Top.owner, None, Top.k, 0))
  /\ lastRet' = IF Top.owner \in Runners THEN [lastRet EXCEPT ![Top.owner] = Undef]
                ELSE lastRet
  /\ stack' = Caught(stack)
  /\ UNCHANGED <<utilVars, prog, value, subs, EFFECT_DEPS, cleanup, compVars, stateVars, made, bound,
                 inv, lastReads, disposed, zombie, unsubbed, expect, cleaned, compObs>>

\* $state handler.get: a reserved name is answered with a function at once;
\* otherwise track the property's cell for the active runner, read the property
DoPGet ==
  /\ At("pget") \/ (At("pgetif") /\ Top.acc > 0)
  /\ LET p      == Instr.x
         active == IF p \in Reserved THEN None ELSE Active(EFFECT_STACK)
         ps     == ensurePropSignalFor(propSig, EFFECT_DEPS, p)
     IN /\ propSig' = IF active # None THEN ps ELSE propSig
        /\ subs' = IF active # None THEN trackDependency(subs, active, ps[p]) ELSE subs
        /\ EFFECT_DEPS' = IF active # None THEN trackDeps(EFFECT_DEPS, active, ps[p])
                          ELSE EFFECT_DEPS
        /\ stack' = [stack EXCEPT ![Len(stack)].pc = @ + 1,
                                  ![Len(stack)].acc = IF p \in Reserved THEN Func ELSE target[p]]
        /\ lastReads' = IF Top.owner \in Runners /\ p \notin Reserved
                        THEN [lastReads EXCEPT ![Top.owner] = @ \cup {p}]
                        ELSE lastReads
        /\ log' = IF p \in Reserved THEN log
                  ELSE Append(log, Ev("read", Top.owner, p, target[p], 0))
  /\ UNCHANGED <<utilVars, prog, value, EFFECT_STACK, cleanup, compVars, target, globalSubs, made,
                 bound, inv, disposed, zombie, unsubbed, expect, lastRet, cleaned, compObs>>

\* (variant: deleteProperty notifies whether or not the property existed)
Existed_Always(old) == TRUE
\* deleteProperty: const existed = prop in target
Existed(old) == old # Undef

\* state.p = value: the value assigned (a literal, or what the function last read)
Written(ins, acc) == IF ins.y = "acc" THEN acc ELSE ins.v

\* what $state's set / deleteProperty do after storing: the runners of the
\* property's cell (a snapshot), if the map has a cell for it, then notifyGlobal
AfterWrite(ps, sb, p, then, old, new) ==
  IF ps[p] # None THEN PassFrame(Snapshot(sb, ps[p]), p, then, old, new, disposed)
  ELSE GPassFrame(p, old, new, GlobalsOf(p))

\* $state handler.set
DoPSet ==
  /\ At("pset")
  /\ LET p   == Instr.x
         old == target[p]
         new == Written(Instr, Top.acc)
     IN /\ target' = [target EXCEPT ![p] = new]
        /\ log' = Append(log, Ch(IF old = new THEN "psame" ELSE "pchanged", p,
                                 Len(stack) + 1, old, new, Readers(p), CellSubs(p)))
        /\ stack' = IF StateNotifies(old, new)
                    THEN Append(Stepped, AfterWrite(propSig, subs, p, "globals", old, new))
                    ELSE Stepped
        /\ execs' = ResetExecs(old # new, p)
        /\ gets' = ResetGets(old # new, p)
  /\ UNCHANGED <<utilVars, prog, value, subs, EFFECT_STACK, EFFECT_DEPS, cleanup, compVars, propSig,
                 globalSubs, made, bound, inv, lastReads, disposed, zombie, unsubbed, expect,
                 lastRet, cleaned>>

\* $state handler.deleteProperty
DoPDel ==
  /\ At("pdel")
  /\ LET p       == Instr.x
         old     == target[p]
         existed == Existed(old)
     IN /\ target' = [target EXCEPT ![p] = Undef]
        /\ log' = Append(log, Ch(IF existed THEN "pdeleted" ELSE "pabsent", p,
                                 Len(stack) + 1, old, Undef, Readers(p), CellSubs(p)))
        /\ stack' = IF existed
                    THEN Append(Stepped, AfterWrite(propSig, subs, p, "delcell", old, Undef))
                    ELSE Stepped
        /\ execs' = ResetExecs(existed, p)
        /\ gets' = ResetGets(existed, p)
  /\ UNCHANGED <<utilVars, prog, value, subs, EFFECT_STACK, EFFECT_DEPS, cleanup, compVars, propSig,
                 globalSubs, made, bound, inv, lastReads, disposed, zombie, unsubbed, expect,
                 lastRet, cleaned>>

\* state.inspect(): a plain copy of the target, no tracking
DoInspect ==
  /\ At("inspect")
  /\ LET active == Active(EFFECT_STACK)
         R      == IF active # None THEN InspectReads(target) ELSE {}
         \* the cells of the properties R, made where missing
         px     == IF "x" \in R THEN ensurePropSignalFor(propSig, EFFECT_DEPS, "x")
                   ELSE propSig
         ps     == IF "y" \in R THEN ensurePropSignalFor(px, EFFECT_DEPS, "y") ELSE px
     IN /\ propSig' = ps
        /\ subs' = [k \in Sources |->
                     IF \E q \in R : ps[q] = k THEN SetAdd(subs[k], active) ELSE subs[k]]
        /\ EFFECT_DEPS' = IF active # None
                          THEN [EFFECT_DEPS EXCEPT ![active] = @ \cup {ps[q] : q \in R}]
                          ELSE EFFECT_DEPS
        /\ stack' = [stack EXCEPT ![Len(stack)].pc = @ + 1,
                                  ![Len(stack)].snap = [q \in StProps \cup Reserved |-> target[q]]]
  /\ UNCHANGED <<utilVars, prog, value, EFFECT_STACK, cleanup, compVars, target, globalSubs, made,
                 bound, obsVars>>

\* copy.p = v: an assignment to the plain object inspect() returned
DoSnapSet ==
  /\ At("snapset")
  /\ stack' = [stack EXCEPT ![Len(stack)].pc = @ + 1,
                            ![Len(stack)].snap[Instr.x] = Instr.v]
  /\ UNCHANGED <<utilVars, prog, codeVars, obsVars>>

\* state.subscribe(fn): globalSubs.add(fn)
DoGSub ==
  /\ At("gsub")
  /\ globalSubs' = SetAdd(globalSubs, Instr.x)
  /\ stack' = Stepped
  /\ UNCHANGED <<utilVars, prog, value, subs, EFFECT_STACK, EFFECT_DEPS, cleanup, compVars, target,
                 propSig, made, bound, obsVars>>

\* the function state.subscribe returned: globalSubs.delete(fn).  A forEach in
\* progress over the Set skips the deleted entry and no other: the entries
\* after it move up one place, and so does the place of a forEach that is past it
DoGUnsub ==
  /\ At("gunsub")
  /\ LET g  == Instr.x
         at == IF Has(globalSubs, g)
               THEN CHOOSE j \in DOMAIN globalSubs : globalSubs[j] = g ELSE 0
     IN /\ globalSubs' = Remove(globalSubs, g)
        /\ stack' = [j \in DOMAIN stack |->
                       IF j = Len(stack) THEN [stack[j] EXCEPT !.pc = @ + 1]
                       ELSE IF /\ stack[j].kind = "gpass" /\ GlobalsOf(stack[j].src) # <<>>
                               /\ at > 0 /\ at < stack[j].i
                            THEN [stack[j] EXCEPT !.i = @ - 1]
                            ELSE stack[j]]
  /\ UNCHANGED <<utilVars, prog, value, subs, EFFECT_STACK, EFFECT_DEPS, cleanup, compVars, target,
                 propSig, made, bound, obsVars>>

\* ---------------------------------------------------------------- utils/storage.js
\* The latest time Date.now() reaches, and the longest ttl given.
MaxTime == 2
MaxTTL  == 1

\* Texts are sequences of characters.  JavaScript values are records: t is the
\* type, n a number (or 1/0 for true/false), s the characters of a string,
\* items the elements of an array or the <<key, value>> members of an object.
Quote     == "\""
Backslash == "\\"
JStr(s)    == [t |-> "string", n |-> 0, s |-> s, items |-> <<>>]
JNum(n)    == [t |-> "number", n |-> n, s |-> <<>>, items |-> <<>>]
JBool(b)   == [t |-> "boolean", n |-> IF b THEN 1 ELSE 0, s |-> <<>>, items |-> <<>>]
JNull      == [t |-> "null", n |-> 0, s |-> <<>>, items |-> <<>>]
JArr(a)    == [t |-> "array", n |-> 0, s |-> <<>>, items |-> a]
JObj(m)    == [t |-> "object", n |-> 0, s |-> <<>>, items |-> m]
\* the call threw (an Error is not a value the caller receives)
Thrown     == [t |-> "throw", n |-> 0, s |-> <<>>, items |-> <<>>]
Member(k, v) == [k |-> k, v |-> v]

TrueText  == <<"t", "r", "u", "e">>
FalseText == <<"f", "a", "l", "s", "e">>
NullText  == <<"n", "u", "l", "l">>
ValueKey  == <<"v", "a", "l", "u", "e">>
ExpirationKey == <<"e", "x", "p", "i", "r", "a", "t", "i", "o", "n">>
DigitChars == <<"0", "1", "2", "3", "4", "5", "6", "7", "8", "9">>
\* JSON.stringify of the values above (non-negative integers; of the
\* characters of a string only the quote and the backslash need an escape here)
RECURSIVE stringify(_)
stringify(v) ==
  LET RECURSIVE Digits(_)
      Digits(n) ==
        IF n < Len(DigitChars) THEN <<DigitChars[n + 1]>>
        ELSE Digits(n \div Len(DigitChars)) \o <<DigitChars[(n % Len(DigitChars)) + 1]>>
      RECURSIVE Escaped(_)
      Escaped(s) ==
        IF s = <<>> THEN <<>>
        ELSE (IF Head(s) \in {Quote, Backslash} THEN <<Backslash, Head(s)>> ELSE <<Head(s)>>)
             \o Escaped(Tail(s))
      Quoted(s) == <<Quote>> \o Escaped(s) \o <<Quote>>
      RECURSIVE JoinedItems(_)
      JoinedItems(a) ==
        IF a = <<>> THEN <<>>
        ELSE stringify(Head(a))
             \o (IF Tail(a) = <<>> THEN <<>> ELSE <<",">> \o JoinedItems(Tail(a)))
      RECURSIVE JoinedMembers(_)
      JoinedMembers(m) ==
        IF m = <<>> THEN <<>>
        ELSE Quoted(Head(m).k) \o <<":">> \o stringify(Head(m).v)
             \o (IF Tail(m) = <<>> THEN <<>> ELSE <<",">> \o JoinedMembers(Tail(m)))
  IN CASE v.t = "string"  -> Quoted(v.s)
       [] v.t = "number"  -> Digits(v.n)
       [] v.t = "boolean" -> IF v.n = 1 THEN TrueText ELSE FalseText
       [] v.t = "null"    -> NullText
       [] v.t = "array"   -> <<"[">> \o JoinedItems(v.items) \o <<"]">>
       [] v.t = "object"  -> <<"{">> \o JoinedMembers(v.items) \o <<"}">>

\* JSON.parse(text), by recursive descent: the outcome of reading one value from
\* the front of a text is whether that worked, the value, and the text left over;
\* the outcome of parse is the value, or not ok where JSON.parse throws.
\* (No white space, sign, fraction or exponent: the texts stored here have none.)
parse(text) ==
  LET Fail == [ok |-> FALSE, v |-> JNull, rest |-> <<>>]
      Ok(v, rest) == [ok |-> TRUE, v |-> v, rest |-> rest]
      StartsWith(txt, pre) == Len(txt) >= Len(pre) /\ SubSeq(txt, 1, Len(pre)) = pre
      Drop(txt, n) == SubSeq(txt, n + 1, Len(txt))
      IsDigit(c) == \E d \in DOMAIN DigitChars : DigitChars[d] = c
      DigitOf(c) == (CHOOSE d \in DOMAIN DigitChars : DigitChars[d] = c) - 1
      RECURSIVE ParseChars(_, _)
      ParseChars(acc, txt) ==
        IF txt = <<>> THEN Fail
        ELSE IF Head(txt) = Quote THEN Ok(JStr(acc), Tail(txt))
        ELSE IF Head(txt) = Backslash
             THEN IF Len(txt) >= 2 /\ txt[2] \in {Quote, Backslash}
                  THEN ParseChars(Append(acc, txt[2]), Drop(txt, 2))
                  ELSE Fail
        ELSE ParseChars(Append(acc, Head(txt)), Tail(txt))
      RECURSIVE ParseDigits(_, _)
      ParseDigits(n, txt) ==
        IF txt # <<>> /\ IsDigit(Head(txt))
        THEN ParseDigits(n * Len(DigitChars) + DigitOf(Head(txt)), Tail(txt))
        ELSE Ok(JNum(n), txt)
      \* a number is 0, or a digit other than 0 followed by digits
      ParseNumber(txt) ==
        IF Head(txt) = DigitChars[1] THEN Ok(JNum(0), Tail(txt))
        ELSE ParseDigits(DigitOf(Head(txt)), Tail(txt))
      RECURSIVE ParseValue(_)
      RECURSIVE ParseElements(_, _)
      RECURSIVE ParseMembers(_, _)
      ParseValue(txt) ==
        IF txt = <<>> THEN Fail
        ELSE CASE Head(txt) = Quote          -> ParseChars(<<>>, Tail(txt))
               [] IsDigit(Head(txt))         -> ParseNumber(txt)
               [] StartsWith(txt, TrueText)  -> Ok(JBool(TRUE), Drop(txt, Len(TrueText)))
               [] StartsWith(txt, FalseText) -> Ok(JBool(FALSE), Drop(txt, Len(FalseText)))
               [] StartsWith(txt, NullText)  -> Ok(JNull, Drop(txt, Len(NullText)))
               [] Head(txt) = "["            ->
                    IF StartsWith(txt, <<"[", "]">>) THEN Ok(JArr(<<>>), Drop(txt, 2))
                    ELSE ParseElements(<<>>, Tail(txt))
               [] Head(txt) = "{"            ->
                    IF StartsWith(txt, <<"{", "}">>) THEN Ok(JObj(<<>>), Drop(txt, 2))
                    ELSE ParseMembers(<<>>, Tail(txt))
               [] OTHER                      -> Fail
      ParseElements(acc, txt) ==
        LET r == ParseValue(txt)
        IN IF ~r.ok \/ r.rest = <<>> THEN Fail
           ELSE IF Head(r.rest) = "," THEN ParseElements(Append(acc, r.v), Tail(r.rest))
           ELSE IF Head(r.rest) = "]" THEN Ok(JArr(Append(acc, r.v)), Tail(r.rest))
           ELSE Fail
      ParseMembers(acc, txt) ==
        IF txt = <<>> \/ Head(txt) # Quote THEN Fail
        ELSE LET k == ParseChars(<<>>, Tail(txt))
             IN IF ~k.ok \/ k.rest = <<>> \/ Head(k.rest) # ":" THEN Fail
                ELSE LET r == ParseValue(Tail(k.rest))
                         m == Append(acc, Member(k.v.s, r.v))
                     IN IF ~r.ok \/ r.rest = <<>> THEN Fail
                        ELSE IF Head(r.rest) = "," THEN ParseMembers(m, Tail(r.rest))
                        ELSE IF Head(r.rest) = "}" THEN Ok(JObj(m), Tail(r.rest))
                        ELSE Fail
      whole == ParseValue(text)
  IN IF whole.ok /\ whole.rest = <<>> THEN whole ELSE Fail

\* The calls made: keys, storage types, values, defaults.
Keys      == {"", "k"}
ItemKeys  == {k \in Keys : k # ""}
Types     == {"local", "session"}
Plain     == {JStr(<<"a">>), JStr(<<"1", "2">>)}
             \cup {JNum(12), JBool(TRUE), JNull, JArr(<<JNum(1), JNum(2)>>),
                   JObj(<<Member(<<"a">>, JStr(<<"b">>))>>)}
Timed     == {JStr(<<"1", "2">>), JNum(0)}
Defaults  == {JNull, JStr(<<"d">>)}

\* an item of a Storage: getItem gives its text, or null when it is absent
NoItem     == [has |-> FALSE, text |-> <<>>]
NoValue    == [has |-> FALSE, v |-> JNull, e |-> 0]
Given(v, e) == [has |-> TRUE, v |-> v, e |-> e]
Storage(ty) == IF ty = "local" THEN localStorage ELSE sessionStorage

\* getStorage(key, {type, default}) on the storage st
getStorage(st, key, defaultValue) ==
  IF key = "" THEN Thrown
  ELSE LET item == st[key]
       IN IF ~item.has THEN defaultValue
          ELSE IF parse(item.text).ok THEN parse(item.text).v
          ELSE JStr(item.text)

\* setStorage: `typeof value === 'string' ? value : JSON.stringify(value)`
serialized(val) == IF val.t = "string" THEN val.s ELSE stringify(val)

\* data.expiration, `'expiration' in data`, data.value of a parsed object
HasMember(data, k) == \E i \in DOMAIN data.items : data.items[i].k = k
MemberOf(data, k) == data.items[CHOOSE i \in DOMAIN data.items : data.items[i].k = k].v
\* `!data || typeof data !== 'object' || !('expiration' in data)`;
\* `!data` holds of null, 0, false and the empty string
NotExpiring(data) ==
  \/ data.t = "null"
  \/ data.t = "number" /\ data.n = 0
  \/ data.t = "boolean" /\ data.n = 0
  \/ data.t = "string" /\ data.s = <<>>
  \/ data.t \notin {"null", "array", "object"}
  \/ data.t # "object"
  \/ ~HasMember(data, ExpirationKey)

\* call: the call whose return value ret holds; NoCall once time has passed since
TheCall(op, key, ty, d) ==
  [op |-> op, key |-> key, ty |-> ty, d |-> d]
NoCall == [op |-> "none", key |-> "", ty |-> "local", d |-> JNull]

\* storage.setItem(key, text) / storage.removeItem(key) on the storage of type ty
Put(ty, key, item) ==
  /\ localStorage' = IF ty = "local" THEN [localStorage EXCEPT ![key] = item] ELSE localStorage
  /\ sessionStorage' = IF ty = "session" THEN [sessionStorage EXCEPT ![key] = item]
                       ELSE sessionStorage

CoreIdle == UNCHANGED <<prog, codeVars, stack, obsVars>>
StorageOnly == CoreIdle /\ UNCHANGED eventVars

\* setStorage(key, value, {type})
CallSetStorage ==
  \E key \in Keys, val \in Plain, ty \in Types :
    /\ call' = TheCall("setStorage", key, ty, JNull)
    /\ IF key = ""
       THEN ret' = Thrown /\ UNCHANGED <<localStorage, sessionStorage, stored, expiring>>
       ELSE /\ Put(ty, key, [has |-> TRUE, text |-> serialized(val)])
            /\ ret' = JBool(TRUE)
            /\ stored' = [stored EXCEPT ![ty][key] = Given(val, 0)]
            /\ expiring' = [expiring EXCEPT ![ty][key] = NoValue]
    /\ UNCHANGED now
    /\ StorageOnly

\* getStorage(key, {type, default})
CallGetStorage ==
  \E key \in Keys, ty \in Types, d \in Defaults :
    /\ call' = TheCall("getStorage", key, ty, d)
    /\ ret' = getStorage(Storage(ty), key, d)
    /\ UNCHANGED <<localStorage, sessionStorage, now, stored, expiring>>
    /\ StorageOnly

\* removeStorage(key, {type})
CallRemoveStorage ==
  \E key \in Keys, ty \in Types :
    /\ call' = TheCall("removeStorage", key, ty, JNull)
    /\ IF key = ""
       THEN ret' = Thrown /\ UNCHANGED <<localStorage, sessionStorage, stored, expiring>>
       ELSE /\ Put(ty, key, NoItem)
            /\ ret' = JBool(TRUE)
            /\ stored' = [stored EXCEPT ![ty][key] = NoValue]
            /\ expiring' = [expiring EXCEPT ![ty][key] = NoValue]
    /\ UNCHANGED now
    /\ StorageOnly

\* setStorageWithExpiration(key, value, ttl, {type})
CallSetStorageWithExpiration ==
  \E key \in Keys, val \in Timed, ttl \in 0..MaxTTL, ty \in Types :
    /\ call' = TheCall("setStorageWithExpiration", key, ty, JNull)
    /\ IF key = "" \/ ttl <= 0
       THEN ret' = Thrown /\ UNCHANGED <<localStorage, sessionStorage, stored, expiring>>
       ELSE LET data == JObj(<<Member(ValueKey, val), Member(ExpirationKey, JNum(now + ttl))>>)
            IN /\ Put(ty, key, [has |-> TRUE, text |-> serialized(data)])
               /\ ret' = JBool(TRUE)
               /\ stored' = [stored EXCEPT ![ty][key] = Given(data, 0)]
               /\ expiring' = [expiring EXCEPT ![ty][key] = Given(val, now + ttl)]
    /\ UNCHANGED now
    /\ StorageOnly

\* getStorageWithExpiration(key, {type, default})
CallGetStorageWithExpiration ==
  \E key \in Keys, ty \in Types, d \in Defaults :
    /\ call' = TheCall("getStorageWithExpiration", key, ty, d)
    /\ LET data == getStorage(Storage(ty), key, JNull)
       IN IF data = Thrown
          THEN ret' = d /\ UNCHANGED <<localStorage, sessionStorage, stored>>
          ELSE IF NotExpiring(data)
          THEN ret' = data /\ UNCHANGED <<localStorage, sessionStorage, stored>>
          ELSE IF now > MemberOf(data, ExpirationKey).n
          THEN /\ Put(ty, key, NoItem)
               /\ ret' = d
               /\ stored' = [stored EXCEPT ![ty][key] = NoValue]
          ELSE /\ ret' = IF HasMember(data, ValueKey) THEN MemberOf(data, ValueKey) ELSE JNull
               /\ UNCHANGED <<localStorage, sessionStorage, stored>>
    /\ UNCHANGED <<now, expiring>>
    /\ StorageOnly

\* time passes between two calls
Tick ==
  /\ now < MaxTime
  /\ now' = now + 1
  /\ call' = NoCall
  /\ UNCHANGED <<localStorage, sessionStorage, ret, stored, expiring>>
  /\ StorageOnly

InitStorage ==
  /\ localStorage = [k \in ItemKeys |-> NoItem]
  /\ sessionStorage = [k \in ItemKeys |-> NoItem]
  /\ now = 0
  /\ ret = JNull
  /\ call = NoCall
  /\ stored = [ty \in Types |-> [k \in ItemKeys |-> NoValue]]
  /\ expiring = [ty \in Types |-> [k \in ItemKeys |-> NoValue]]

StorageNext ==
  \/ CallSetStorage
  \/ CallGetStorage
  \/ CallRemoveStorage
  \/ CallSetStorageWithExpiration
  \/ CallGetStorageWithExpiration
  \/ Tick

\* ---------------------------------------------------------------- core/events.js
\* How many times once is called, and how many events the page dispatches.
MaxReg    == 2
MaxEvents == 3

\* Event types are words; an `events` argument is a text of words separated by
\* spaces.  Handlers: h does nothing more than count its calls, g dispatches
\* the event it received on the element once more, the first time it is called
\* (`if (n++ < 1) el.dispatchEvent(new Event(e.type))`).
EvNames   == {<<"c">>, <<"k">>}
Handlers  == {"h", "g"}

\* String(events).split(/\s+/).filter(Boolean)
RECURSIVE Words(_, _)
Words(word, txt) ==
  IF txt = <<>> THEN (IF word = <<>> THEN <<>> ELSE <<word>>)
  ELSE IF Head(txt) = " "
       THEN (IF word = <<>> THEN <<>> ELSE <<word>>) \o Words(<<>>, Tail(txt))
       ELSE Words(Append(word, Head(txt)), Tail(txt))
normalizeEvents(events) == IF events = <<>> THEN <<>> ELSE Words(<<>>, events)

\* the closure `wrapped` made by the reg-th call of once for the event type ev
Wrapped(reg, ev) == [reg |-> reg, ev |-> ev]
\* a listener of the element: el.addEventListener(ev, wrapped)
Listener(ev, w) == [ev |-> ev, wrapped |-> w]

RECURSIVE Without(_, _)
\* the elements of seq not in the set gone, in order (Array.prototype.filter)
Without(seq, gone) ==
  IF seq = <<>> THEN <<>>
  ELSE (IF Head(seq) \in gone THEN <<>> ELSE <<Head(seq)>>) \o Without(Tail(seq), gone)

\* off(el, events, handler) on the element's listeners ls and its records eh;
\* the records that match are removed, and their listeners with them
off(st, events, handler) ==
  LET Matching(rec) ==
        /\ events = <<>> \/ Has(normalizeEvents(events), rec.ev)
        /\ handler = None \/ rec.orig = handler
      hit == {st.eh[i] : i \in {j \in DOMAIN st.eh : Matching(st.eh[j])}}
  IN [ls |-> Without(st.ls, {Listener(rec.ev, rec.wrapped) : rec \in hit}),
      eh |-> Without(st.eh, hit)]
RECURSIVE OffEach(_, _, _)
\* the unbind function of once: offFns.forEach((f) => f())
OffEach(st, evs, handler) ==
  IF evs = <<>> THEN st ELSE OffEach(off(st, Head(evs), handler), Tail(evs), handler)

RECURSIVE OfType(_, _)
\* el.dispatchEvent: the listeners of the event's type, as they are when it begins
OfType(ls, ev) ==
  IF ls = <<>> THEN <<>>
  ELSE (IF Head(ls).ev = ev THEN <<Head(ls)>> ELSE <<>>) \o OfType(Tail(ls), ev)

ETop == estack[Len(estack)]
Here == [ls |-> listeners, eh |-> elementHandlers]
\* observation: the registrations that lose a record for an event type of which
\* no event has been dispatched since they were made
CutBy(st) ==
  LET Holding(eh, r, ev) == \E i \in DOMAIN eh : eh[i].wrapped = Wrapped(r, ev)
  IN [r \in DOMAIN regs |->
       [regs[r] EXCEPT !.cut = @ \cup {ev \in EvNames :
           /\ Holding(elementHandlers, r, ev) /\ ~Holding(st.eh, r, ev)
           /\ ndisp[ev] = regs[r].at[ev]}]]

EventsOnly == CoreIdle /\ UNCHANGED storageVars

\* once(el, events, handler)
CallOnce ==
  \E events \in {<<"c">>, <<"k">>, <<"c", " ", "k">>}, handler \in Handlers :
    /\ estack = <<>>
    /\ nreg < MaxReg
    /\ LET evs == normalizeEvents(events)
       IN /\ listeners' = listeners \o
               [i \in DOMAIN evs |-> Listener(evs[i], Wrapped(nreg + 1, evs[i]))]
          /\ elementHandlers' = elementHandlers \o
               \* storeHandler: a record { ev, orig: handler, wrapped }
               [i \in DOMAIN evs |-> [ev |-> evs[i], orig |-> handler,
                                      wrapped |-> Wrapped(nreg + 1, evs[i])]]
    /\ nreg' = nreg + 1
    /\ regs' = Append(regs, [events |-> events, h |-> handler, at |-> ndisp, cut |-> {},
                             unbound |-> FALSE])
    /\ UNCHANGED <<estack, ndisp, gn, invoked>>
    /\ EventsOnly

\* unbind(): the function the r-th call of once returned
CallUnbind ==
  \E r \in DOMAIN regs :
    /\ estack = <<>>
    /\ LET st == OffEach(Here, normalizeEvents(regs[r].events), regs[r].h)
       IN /\ listeners' = st.ls
          /\ elementHandlers' = st.eh
          /\ regs' = [CutBy(st) EXCEPT ![r].unbound = TRUE]
    /\ UNCHANGED <<estack, nreg, ndisp, gn, invoked>>
    /\ EventsOnly

\* off(el, events, handler) called by the page
CallOff ==
  \E events \in {<<>>, <<"c">>}, handler \in {None, "h"} :
    /\ estack = <<>>
    /\ elementHandlers # <<>>
    /\ LET st == off(Here, events, handler)
       IN /\ listeners' = st.ls
          /\ elementHandlers' = st.eh
          /\ regs' = CutBy(st)
    /\ UNCHANGED <<estack, nreg, ndisp, gn, invoked>>
    /\ EventsOnly

\* el.dispatchEvent(new Event(ev)) begins
Begin(ev, base) ==
  /\ ndisp' = [ndisp EXCEPT ![ev] = @ + 1]
  /\ estack' = Append(base, [kind |-> "dispatch", ev |-> ev, no |-> ndisp[ev] + 1,
                             arr |-> OfType(listeners, ev), i |-> 1,
                             w |-> Wrapped(0, <<>>), h |-> None, pc |-> 0])

\* the page dispatches an event on the element
CallDispatch ==
  \E ev \in EvNames :
    /\ estack = <<>>
    /\ ndisp[<<"c">>] + ndisp[<<"k">>] < MaxEvents
    /\ Begin(ev, estack)
    /\ UNCHANGED <<listeners, elementHandlers, nreg, gn, regs, invoked>>
    /\ EventsOnly

\* dispatch: the next listener of the list; one removed meanwhile is not called
DispatchNext ==
  /\ estack # <<>> /\ ETop.kind = "dispatch" /\ ETop.i <= Len(ETop.arr)
  /\ LET l    == ETop.arr[ETop.i]
         base == [estack EXCEPT ![Len(estack)].i = @ + 1]
         hd   == regs[l.wrapped.reg].h
     IN IF Has(listeners, l)
        THEN /\ estack' = Append(base, [kind |-> "wrapped", ev |-> ETop.ev, no |-> ETop.no,
                                        arr |-> <<>>, i |-> 0, w |-> l.wrapped, h |-> hd,
                                        pc |-> 1])
             /\ invoked' = Append(invoked, [h |-> hd, ev |-> ETop.ev, no |-> ETop.no,
                                            reg |-> l.wrapped.reg])
        ELSE estack' = base /\ UNCHANGED invoked
  /\ UNCHANGED <<listeners, elementHandlers, nreg, ndisp, gn, regs>>
  /\ EventsOnly

\* wrapped: `handler.call(this, e)`, the handler's body
HandlerCall ==
  /\ estack # <<>> /\ ETop.kind = "wrapped" /\ ETop.pc = 1
  /\ LET base == [estack EXCEPT ![Len(estack)].pc = 2]
     IN IF ETop.h = "g"
        THEN /\ gn' = Min(gn + 1, 2)
             /\ IF gn < 1 THEN Begin(ETop.ev, base) ELSE estack' = base /\ UNCHANGED ndisp
        ELSE estack' = base /\ UNCHANGED <<gn, ndisp>>
  /\ UNCHANGED <<listeners, elementHandlers, nreg, regs, invoked>>
  /\ EventsOnly

\* wrapped: `finally { off(el, ev, handler); }`
WrappedFinally ==
  /\ estack # <<>> /\ ETop.kind = "wrapped" /\ ETop.pc = 2
  /\ LET st == off(Here, ETop.ev, ETop.h)
     IN listeners' = st.ls /\ elementHandlers' = st.eh
  /\ estack' = Front(estack)
  /\ UNCHANGED <<nreg, ndisp, gn, regs, invoked>>
  /\ EventsOnly

\* dispatch: every listener of the list has been dealt with
DispatchDone ==
  /\ estack # <<>> /\ ETop.kind = "dispatch" /\ ETop.i > Len(ETop.arr)
  /\ estack' = Front(estack)
  /\ UNCHANGED <<listeners, elementHandlers, nreg, ndisp, gn, regs, invoked>>
  /\ EventsOnly

InitEvents ==
  /\ listeners = <<>>
  /\ elementHandlers = <<>>
  /\ estack = <<>>
  /\ nreg = 0
  /\ ndisp = [ev \in EvNames |-> 0]
  /\ gn = 0
  /\ regs = <<>>
  /\ invoked = <<>>

EventsNext ==
  \/ CallOnce
  \/ CallUnbind
  \/ CallOff
  \/ CallDispatch
  \/ DispatchNext
  \/ HandlerCall
  \/ WrappedFinally
  \/ DispatchDone

\* ---------------------------------------------------------------- specification
\* createSignal(initial): the programs about plain signals and computeds start
\* signal s from any value, the others from 0
InitCore(P) ==
  /\ prog \in P
  /\ value \in {[s \in Signals |-> IF s = "s" THEN v ELSE 0] :
                  v \in IF prog \in {"subs", "computed"} THEN Val ELSE {0}}
  /\ subs = [k \in Sources |-> <<>>]
  /\ EFFECT_STACK = <<>>
  /\ EFFECT_DEPS = [r \in Runners |-> {}]
  /\ cleanup = [r \in Runners |-> Undef]
  /\ cached = [c \in Computeds |-> Undef]
  /\ dirty = [c \in Computeds |-> TRUE]
  /\ target = [p \in Props \cup Reserved |-> IF p \in {"x", "x2"} THEN 0 ELSE Undef]
  /\ propSig = [p \in Props \cup Reserved |-> None]
  /\ globalSubs = <<>>
  /\ made = {}
  /\ bound = {}
  /\ stack = <<>>
  /\ log = <<>>
  /\ inv = [r \in Runners |-> 0]
  /\ lastReads = [r \in Runners |-> {}]
  /\ disposed = {}
  /\ zombie = {}
  /\ unsubbed = {}
  /\ expect = value
  /\ lastRet = [r \in Runners |-> Undef]
  /\ cleaned = [r \in Runners |-> <<>>]
  /\ execs = [c \in Computeds |-> 0]
  /\ gets = [c \in Computeds |-> <<>>]

Init == InitCore(Progs) /\ InitStorage /\ InitEvents

Next ==
  \/ Call
  \/ DoGet
  \/ DoSet
  \/ PassNext
  \/ PassDone
  \/ GPassNext
  \/ GPassDone
  \/ DoSub
  \/ DoUnsub
  \/ DoMkEff
  \/ DoMkComp
  \/ DoBind
  \/ DoEnsure
  \/ DoLoad
  \/ DoDispose
  \/ DoRet
  \/ DoThrow
  \/ DoPGet
  \/ DoPSet
  \/ DoPDel
  \/ DoGSub
  \/ DoGUnsub
  \/ DoInspect
  \/ DoSnapSet
  \/ DoSkip

Spec == Init /\ [][Next]_vars

\* JavaScript runs a call to completion: while a call is in progress (the stack
\* is not empty) its next step is taken
LiveSpec == Spec /\ WF_vars(stack # <<>> /\ Next)

\* the storage helpers alone, the reactive core untouched
StorageInit == InitCore({None}) /\ InitStorage /\ InitEvents
StorageSpec == StorageInit /\ [][StorageNext]_vars

\* the event helpers alone
EventsInit == InitCore({None}) /\ InitStorage /\ InitEvents
EventsSpec == EventsInit /\ [][EventsNext]_vars

\* ---------------------------------------------------------------- properties
\* the top-level call has finished all its work and is about to return
AtReturn == Len(stack) = 1 /\ InBody /\ Top.owner = Main /\ Instr.op = "ret"
\* the innermost function has just executed instruction `ins`
Just(ins) == InBody /\ Top.pc > 1 /\ Top.code[Top.pc - 1] = ins

Is(j, ev)      == log[j].ev = ev
IsOf(j, ev, f) == log[j].ev = ev /\ log[j].who = f
NumOf(ev, f)   == Cardinality({j \in DOMAIN log : IsOf(j, ev, f)})
Writes         == {"changed", "same", "pchanged", "psame", "pdeleted", "pabsent"}
\* the subscriber invocations made by the notification pass of the write logged at j:
\* calls from the same stack depth, before the next write made at that depth
PassCalls(j) ==
  {i \in (j + 1) .. Len(log) :
     /\ Is(i, "call") /\ log[i].n = log[j].n /\ log[i].src = log[j].src
     /\ \A m \in (j + 1) .. (i - 1) : ~(log[m].ev \in Writes /\ log[m].n = log[j].n)}
CallsTo(j, f) == {i \in PassCalls(j) : log[i].who = f}
Increasing(seq) == \A a, b \in DOMAIN seq : a < b => seq[a] < seq[b]

\* C1: get() returns the initial value before the first set and afterwards the
\* value the most recent set call produced (its literal, or its updater
\* applied to the value held just before that set).
C1_GetReturnsLatestSet ==
  \A s \in Signals : Just(Get(s)) => Top.acc = expect[s]

\* a subscriber called by set(prev => ...) reads the value the updater produced
C1_Witness ==
  /\ Just(Get("s")) /\ Top.owner = "K1" /\ Top.acc = 2
  /\ stack[1].code[1] = SetFn("s")

\* C2: a set whose resulting value is identical to the current value invokes
\* no subscriber (callback or runner); every subscriber invocation belongs to
\* the pass of a set that changed the value.
C2_SameValueSilent ==
  /\ \A j \in DOMAIN log : Is(j, "same") => PassCalls(j) = {}
  /\ \A i \in DOMAIN log :
       (Is(i, "call") /\ log[i].src \in Signals) =>
          \E j \in 1 .. (i - 1) : Is(j, "changed") /\ i \in PassCalls(j)

\* set(v) with v === value has returned, on a signal that had two subscribers
C2_Witness ==
  /\ AtReturn
  /\ \E j \in DOMAIN log : Is(j, "same") /\ log[j].m = 2

\* C3: if the latest run of a live effect read signal s, a set of s that
\* changes the value makes that set's own notification pass invoke the
\* effect's fn exactly once, the body starting at once, and every body started
\* during the call has finished when the call returns.
C3_ReaderRerunsOnce ==
  AtReturn =>
    \A j \in DOMAIN log : Is(j, "changed") =>
      \A e \in log[j].rd \cap Effects :
        /\ Cardinality(CallsTo(j, e)) = 1
        /\ \A i \in CallsTo(j, e) :
             \E b \in {i + 1, i + 2} : b <= Len(log) /\ IsOf(b, "body", e)
        /\ NumOf("body", e) = NumOf("end", e) + NumOf("threw", e)

\* a changing set has re-run two effects that had read the signal
C3_Witness ==
  /\ AtReturn
  /\ \E j \in DOMAIN log : Is(j, "changed") /\ log[j].rd = {"E1", "E2"}

\* C4: once an effect's dispose() has returned, no later set of a signal (or
\* write or delete of a state property) invokes its fn again.
C4_DisposedNeverRuns == zombie = {}

Created(e) == Len(stack) = 1 /\ InBody /\ Top.owner = Main /\ Instr = Bind(e)
Creates(r, e) == \E i \in DOMAIN Body(prog, r) :
                   Body(prog, r)[i].op = "mkeff" /\ Body(prog, r)[i].x = e
CreatedNow(e) ==
  /\ stack # <<>> /\ e \in made
  /\ \/ stack[1].code[1] = MkEff(e)
     \/ \E r \in Effects : Creates(r, e) /\ stack[1].code[1] = MkEff(r)
C6_RunsOnceAtCreation ==
  \A e \in Effects :
    /\ Created(e) => log # <<>> /\ IsOf(1, "body", e)
    /\ (InBody /\ Instr = Bind(e) /\ CreatedNow(e)) =>
         /\ NumOf("body", e) = NumOf("call", e) + 1
         /\ NumOf("body", e) = NumOf("end", e) + NumOf("threw", e)
    /\ stack # <<>> =>
         NumOf("body", e) = NumOf("call", e) + (IF CreatedNow(e) THEN 1 ELSE 0)

\* createEffect has just returned and its only invocation so far is the initial one
C6_Witness == Created("E1") /\ NumOf("body", "E1") = 1 /\ NumOf("end", "E1") = 1

\* C7 as stated: calling a computed's getter N >= 1 times with no change of a
\* dependency in between (nor one in progress) executes fn exactly once in
\* total, and all N calls return the same value.
QuietGets(c) == SelectSeq(gets[c], LAMBDA g : g[2])
Returned(c)  == {QuietGets(c)[j][1] : j \in DOMAIN QuietGets(c)}
Throws(p, c) == \E i \in DOMAIN Body(p, c) : Body(p, c)[i] = Throw
C8_ChangeOnlyMarksDirty ==
  \A c \in Computeds :
    /\ \A j \in 2 .. Len(stack) :
         (stack[j].kind = "body" /\ stack[j].owner = c) => stack[j - 1].kind # "pass"
    /\ (Len(stack) = 1 /\ Just(Load(c)) /\ Len(gets[c]) = 1) => NumOf("body", c) = 1

C10_StateReaderReruns ==
  AtReturn =>
    \A j \in DOMAIN log : Is(j, "pchanged") =>
      \A e \in log[j].rd \cap Effects :
        /\ Cardinality(CallsTo(j, e)) = 1
        /\ \A i \in CallsTo(j, e) :
             \E b \in (i + 1) .. Len(log) :
               /\ IsOf(b, "read", e) /\ log[b].src = log[j].src /\ log[b].n = log[j].m
               /\ \A m \in (i + 1) .. (b - 1) : ~IsOf(m, "read", e)

\* C11: whatever writes and deletes of p came before, a write or delete that
\* changes p re-runs every effect whose latest run read state.p; so between
\* calls such an effect is a subscriber of the cell the map holds for p.
C11_ReaderSurvivesDelete ==
  /\ AtReturn =>
       \A j \in DOMAIN log : (Is(j, "pchanged") \/ Is(j, "pdeleted")) =>
         \A e \in log[j].rd \cap Effects : CallsTo(j, e) # {}
  /\ Idle =>
       \A e \in (made \cap Effects) \ disposed : \A p \in lastReads[e] \cap Props :
         propSig[p] # None /\ Has(subs[propSig[p]], e)

\* C12: a write state.p = v with v === the current value of p is silent: the
\* assignment returns at once, no runner and no global callback is called,
\* and the subscriptions (cells, their subscribers, the runners' dependency
\* sets, the global subscribers) are what they were.
C12_SameWriteSilent ==
  [][(At("pset") /\ target[Instr.x] = Written(Instr, Top.acc))
       => /\ stack' = Stepped
          /\ log' = Append(log, Ch("psame", Instr.x, Len(stack) + 1, target[Instr.x],
                                   target[Instr.x], Readers(Instr.x), CellSubs(Instr.x)))
          /\ UNCHANGED <<subs, EFFECT_DEPS, EFFECT_STACK, propSig, globalSubs, target, inv>>]_vars

\* state.x = 1 written again while effect E1 is subscribed to x's cell and
\* global callback G1 is registered
C12_Witness ==
  /\ Len(stack) = 1 /\ Just(PSet("x", 1)) /\ log # <<>> /\ Is(Len(log), "psame")
  /\ globalSubs = <<"G1">>
  /\ propSig["x"] # None /\ Has(subs[propSig["x"]], "E1")

\* the global callback invocations made by the write logged at j (its
\* notifyGlobal runs at the stack depth of the write's own notification)
GCalls(j) ==
  {i \in (j + 1) .. Len(log) :
     /\ Is(i, "gcall") /\ log[i].n = log[j].n
     /\ \A m \in (j + 1) .. (i - 1) : ~(log[m].ev \in Writes /\ log[m].n = log[j].n)}
GCallsTo(j, g) == {i \in GCalls(j) : log[i].who = g}
Triple(e) == <<e.src, e.old, e.m>>
TriplesOf(seq) == [i \in DOMAIN seq |-> Triple(seq[i])]
Registered == {globalSubs[i] : i \in DOMAIN globalSubs}
\* write j2 was made while write j was still calling its runners
Inside(j, j2) ==
  /\ j < j2 /\ log[j2].n > log[j].n
  /\ \A m \in (j + 1) .. (j2 - 1) : log[m].ev \in Writes => log[m].n > log[j].n
  /\ \A i \in GCalls(j) : j2 < i

StartedWith(j) == {g \in Callbacks : \E i \in GCalls(j) : Has(log[i].at, g)}

\* C14: delete state.p on an existing property invokes each global callback
\* (each one registered when the delete starts to notify them) exactly once,
\* with (p, old value, undefined), and changes no other property; delete
\* state.p on an absent property pushes no notification: no callback is
\* invoked and no effect re-run.
C14_DeleteNotifiesOnce ==
  /\ [](AtReturn =>
          /\ \A j \in DOMAIN log : Is(j, "pdeleted") =>
               \A g \in StartedWith(j) :
                 /\ Cardinality(GCallsTo(j, g)) = 1
                 /\ \A i \in GCallsTo(j, g) :
                      Triple(log[i]) = <<log[j].src, log[j].old, Undef>>
          /\ \A j \in DOMAIN log : Is(j, "pabsent") =>
               (PassCalls(j) = {} /\ GCalls(j) = {}))
  /\ [][At("pdel") =>
          /\ target' = [target EXCEPT ![Instr.x] = Undef]
          /\ (target[Instr.x] = Undef =>
                (stack' = Stepped /\ UNCHANGED <<subs, EFFECT_DEPS, propSig, globalSubs, inv>>))]_vars

\* delete state.x, x holding 1 and y holding 2, with effect E1 reading x and
\* callback G1 registered: G1 has been called with (x, 1, undefined)
C14_Witness ==
  /\ prog = "state" /\ AtReturn /\ log # <<>> /\ Is(1, "pdeleted")
  /\ log[1].rd = {"E1"} /\ globalSubs = <<"G1">>
  /\ target["x"] = Undef /\ target["y"] = 2
  /\ \E i \in GCallsTo(1, "G1") : Triple(log[i]) = <<"x", 1, Undef>>

\* C15: once the unsubscribe function of subscribe(fn) has been called (and fn
\* has not been subscribed again), no set call made after that invokes fn.
C15_UnsubscribedNeverCalled ==
  \A j \in 2 .. Len(stack) :
    (stack[j].kind = "body" /\ stack[j].owner \in Callbacks /\ stack[j - 1].kind = "pass")
      => stack[j].owner \notin stack[j - 1].gone

\* a changing set after K1 was unsubscribed has called the remaining subscriber K2 only
C15_Witness ==
  /\ prog = "subs" /\ InPass /\ Top.src = "s" /\ Top.gone = {"K1"}
  /\ Top.arr = <<"K2">> /\ Top.i = 2

Elems(seq) == {seq[i] : i \in DOMAIN seq}

\* C16: the notification pass of a changing set invokes exactly the
\* subscribers that were in the signal's subscriber set when the set was
\* called, each once, whatever the callbacks add to or remove from the set
\* during the pass.
C16_PassInvokesSnapshot ==
  AtReturn =>
    \A j \in DOMAIN log : Is(j, "changed") =>
      /\ \A f \in Elems(log[j].at) : Cardinality(CallsTo(j, f)) = 1
      /\ \A i \in PassCalls(j) : log[i].who \in Elems(log[j].at)

\* a set with subscribers K1, K2: K1 unsubscribed K2 during the pass and K2
\* was still called
C16_Witness ==
  /\ prog = "churn" /\ AtReturn /\ log # <<>> /\ Is(1, "changed")
  /\ log[1].at = <<"K1", "K2">> /\ subs["s"] = <<"K1">>
  /\ CallsTo(1, "K2") # {}

\* a set with subscriber K2 only: K2 subscribed K1 during the pass and K1 was
\* not called
C16_WitnessAdded ==
  /\ prog = "churn" /\ AtReturn /\ log # <<>> /\ Is(1, "changed")
  /\ log[1].at = <<"K2">> /\ subs["s"] = <<"K2", "K1">>
  /\ CallsTo(1, "K1") = {}

\* C17: dispose() invokes the cleanup the effect's last run returned, exactly
\* once (it had not been invoked before); a dispose() of an effect already
\* disposed invokes no cleanup, removes no subscription and returns normally.
C17_FirstDisposeCleansOnce ==
  [][(At("dispose") /\ Instr.x \in bound /\ Instr.x \notin disposed
        /\ ~Has(EFFECT_STACK, Instr.x))
       => LET e == Instr.x
          IN /\ stack' = Stepped
             /\ IF lastRet[e] # Undef
                THEN /\ ~Has(cleaned[e], lastRet[e])
                     /\ cleaned'[e] = Append(cleaned[e], lastRet[e])
                ELSE cleaned'[e] = cleaned[e]]_vars
C17_SecondDisposeNoOp ==
  [][(At("dispose") /\ Instr.x \in disposed)
       => /\ stack' = Stepped
          /\ UNCHANGED <<cleaned, subs, EFFECT_DEPS, cleanup>>]_vars
C17_DisposeIdempotent == C17_FirstDisposeCleansOnce /\ C17_SecondDisposeNoOp

Changing == {"changed", "pchanged", "pdeleted"}

\* C18: an exception thrown by a subscriber during the notification pass of a
\* signal's set, or of a $state write or delete, is caught by the pass, which
\* goes on: every subscriber listed when the write began is still invoked
\* once, and the write returns normally to its caller.
C18_ThrowDoesNotStopPass ==
  /\ [][At("throw") => (stack' = Front(stack) /\ UNCHANGED <<value, target, subs>>)]_vars
  /\ [](AtReturn =>
          \A j \in DOMAIN log :
            (log[j].ev \in Changing /\ \E t \in (j + 1) .. Len(log) : Is(t, "threw"))
              => \A f \in Elems(log[j].at) : Cardinality(CallsTo(j, f)) = 1)

\* a changing set with subscribers K1 (which throws), E1 (whose fn throws)
\* and K2, in this order: all three were called
C18_Witness ==
  /\ prog = "thrower" /\ AtReturn /\ log # <<>> /\ Is(1, "changed")
  /\ log[1].at = <<"K1", "E1", "K2">>
  /\ NumOf("threw", "K1") = 1 /\ NumOf("threw", "E1") = 1 /\ CallsTo(1, "K2") # {}

\* a changing write of state.x with runners E1 (whose fn throws) and E2: both were called
C18_WitnessState ==
  /\ prog = "pthrower" /\ AtReturn /\ log # <<>> /\ Is(1, "pchanged")
  /\ log[1].at = <<"E1", "E2">>
  /\ NumOf("threw", "E1") = 1 /\ CallsTo(1, "E2") # {}

\* C19: when fn of an effect or computed throws, the exception goes no
\* further than the runner (its caller goes on), the runner is popped from
\* EFFECT_STACK, and the subscriptions made by the reads before the throw
\* stay, so that the next change of a source the run read re-runs it.
C19_ThrowCaughtAndPopped ==
  [][(At("throw") /\ Top.owner \in Runners)
       => /\ stack' = Front(stack)
          /\ EFFECT_STACK' = Front(EFFECT_STACK)
          /\ UNCHANGED <<subs, EFFECT_DEPS>>
          /\ \A src \in lastReads[Top.owner] :
               Has(IF src \in Props THEN CellSubs(src) ELSE subs[src], Top.owner)]_vars
C19_ThrowingRunnerRerunsOn(evs) ==
  AtReturn =>
    \A j \in DOMAIN log : log[j].ev \in evs =>
      \A r \in log[j].rd : Throws(prog, r) => CallsTo(j, r) # {}
C19_ThrowingRunnerStaysSubscribed ==
  C19_ThrowCaughtAndPopped /\ []C19_ThrowingRunnerRerunsOn(Changing)
\* the part about signals
C19_ThrowingRunnerOfSignal ==
  C19_ThrowCaughtAndPopped /\ []C19_ThrowingRunnerRerunsOn({"changed"})

C20_WitnessDelete ==
  /\ prog = "props" /\ AtReturn /\ log # <<>> /\ Is(1, "pdeleted") /\ log[1].src = "y"
  /\ lastReads["E1"] = {"x"} /\ "E1" \in made \ disposed
  /\ CallsTo(1, "E2") # {} /\ CallsTo(1, "E1") = {}

\* a function that calls state.inspect() and reads no signal or property
InspectOnly(p, f) ==
  /\ \E i \in DOMAIN Body(p, f) : Body(p, f)[i] = Inspect
  /\ \A i \in DOMAIN Body(p, f) : Body(p, f)[i].op \notin {"get", "pget", "ensure", "load"}

\* C21: state.inspect() registers no dependency (a runner whose body only
\* calls inspect() is a subscriber of nothing and no write or delete calls
\* it), and it returns a copy: it holds the properties' current values, and an
\* assignment to the copy leaves the state as it is.
C21_InspectUntracked ==
  /\ [](\A r \in made : (InspectOnly(prog, r) /\ ~Has(EFFECT_STACK, r)) =>
          /\ EFFECT_DEPS[r] = {}
          /\ \A k \in Sources : ~Has(subs[k], r))
  /\ [](\A i \in DOMAIN log : Is(i, "call") => ~InspectOnly(prog, log[i].who))
  /\ [][At("inspect") =>
          /\ stack'[Len(stack)].snap = [q \in StProps \cup Reserved |-> target[q]]
          /\ UNCHANGED <<target, subs, EFFECT_DEPS, propSig>>]_vars
  /\ [][At("snapset") => UNCHANGED <<target, subs, EFFECT_DEPS, propSig>>]_vars

\* state.x = 1 while effect E1 and computed C1, which only call inspect(),
\* and effect E2, which reads state.y, exist: nothing was re-run
C21_Witness ==
  /\ prog = "inspect" /\ AtReturn /\ log # <<>> /\ Is(1, "pchanged") /\ log[1].src = "x"
  /\ made = {"E1", "E2", "C1"} /\ PassCalls(1) = {}

\* inside E1: copy.x = 2 while state.x is 1
C21_WitnessCopy ==
  /\ prog = "inspect" /\ InBody /\ Top.owner = "E1" /\ Just(SnapSet("x", 2))
  /\ Top.snap["x"] = 2 /\ target["x"] = 1

\* the latest call was op(key, {type}) with a key that is not empty
Called(op) == call.op = op /\ call.key # ""
\* what setStorage was last given under the latest call's key and type
WasStored == stored[call.ty][call.key]
WasTimed  == expiring[call.ty][call.key]

\* C22: getStorage(key) after setStorage(key, v) on the same storage type
\* returns v, for strings, numbers, booleans, null, arrays and objects alike,
\* and a storage type holds only the keys that were set on it.
C22_RoundTrip ==
  /\ (Called("getStorage") /\ WasStored.has) => ret = WasStored.v
  /\ \A ty \in Types, k \in ItemKeys : Storage(ty)[k].has => stored[ty][k].has

\* C22, what the code does give: the round trip of every value that is not a
\* string whose characters are themselves a JSON text
C22_RoundTripUnlessJsonText ==
  /\ (Called("getStorage") /\ WasStored.has
        /\ ~(WasStored.v.t = "string" /\ parse(WasStored.v.s).ok)) => ret = WasStored.v
  /\ \A ty \in Types, k \in ItemKeys : Storage(ty)[k].has => stored[ty][k].has

\* C23: getStorageWithExpiration(key) of an item stored by
\* setStorageWithExpiration(key, v, ttl) returns v while Date.now() is not past
\* the expiration; every call after that returns the default given to the call
\* and leaves no item in the storage.
C23_ExpiredGivesDefault ==
  (Called("getStorageWithExpiration") /\ WasTimed.has) =>
     IF now > WasTimed.e
     THEN ret = call.d /\ ~Storage(call.ty)[call.key].has
     ELSE ret = WasTimed.v

\* C23, what the code does give: after the expiration the call returns the
\* default or null and the item is gone
C23_ExpiredGivesDefaultOrNull ==
  (Called("getStorageWithExpiration") /\ WasTimed.has) =>
     IF now > WasTimed.e
     THEN ret \in {call.d, JNull} /\ ~Storage(call.ty)[call.key].has
     ELSE ret = WasTimed.v

\* the invocations of a handler made through the r-th call of once, for type ev
Through(r, ev) == {j \in DOMAIN invoked : invoked[j].reg = r /\ invoked[j].ev = ev}

\* C24: a handler registered with once(el, ev, h) is invoked for the first ev
\* event dispatched on el after that and for no later one, and not at all when
\* it was unbound before any ev event.
C24_OnceFirstEventOnly ==
  \A r \in DOMAIN regs : \A ev \in EvNames :
    /\ \A j \in Through(r, ev) : invoked[j].no = regs[r].at[ev] + 1
    /\ Cardinality(Through(r, ev)) <= 1
    /\ ev \in regs[r].cut => Through(r, ev) = {}
    /\ (estack = <<>> /\ Has(normalizeEvents(regs[r].events), ev)
          /\ ndisp[ev] > regs[r].at[ev] /\ ev \notin regs[r].cut) =>
         \E j \in DOMAIN invoked :
           invoked[j].h = regs[r].h /\ invoked[j].ev = ev /\ invoked[j].no = regs[r].at[ev] + 1

\* C24, what the code does give: the same as long as no handler has dispatched
\* an event from inside its own invocation
C24_OnceUnlessNested == (gn = 0) => C24_OnceFirstEventOnly

\* no element occurs twice in seq
Distinct(seq) == \A a, b \in DOMAIN seq : seq[a] = seq[b] => a = b

\* C25: every cleanup an execution of an effect's fn returned is invoked
\* exactly once: the cleanup an effect holds is given up only by calling it
\* (before the next body, or in dispose), a cleanup is called only while it is
\* held, and no cleanup is called twice.
C25_CleanupExactlyOnce ==
  /\ [](\A e \in Effects : Distinct(cleaned[e]))
  /\ [][\A e \in Effects :
          /\ (cleanup[e] # Undef /\ cleanup'[e] # cleanup[e])
               => cleaned'[e] = Append(cleaned[e], cleanup[e])
          /\ cleaned'[e] # cleaned[e]
               => (cleaned'[e] = Append(cleaned[e], cleanup[e]) /\ cleanup'[e] = Undef)]_vars

\* C25, what the code does give: the same, except that an execution returning
\* a cleanup replaces, uncalled, the cleanup of an execution that was nested in it
C25_CleanupExactlyOnceUnlessNested ==
  /\ [](\A e \in Effects : Distinct(cleaned[e]))
  /\ [][\A e \in Effects :
          /\ (cleanup[e] # Undef /\ cleanup'[e] # cleanup[e])
               => \/ cleaned'[e] = Append(cleaned[e], cleanup[e])
                  \/ At("ret") /\ Top.owner = e /\ cleanup[e] > Top.k
          /\ cleaned'[e] # cleaned[e]
               => (cleaned'[e] = Append(cleaned[e], cleanup[e]) /\ cleanup'[e] = Undef)]_vars

\* runner r is in the subscriber set of the signal or state property src
Subscribed(r, src) == IF src \in Signals THEN Has(subs[src], r) ELSE Has(CellSubs(src), r)

\* C26: between calls a runner is a subscriber of exactly the signals and
\* state properties its latest execution read, and a write or delete re-runs
\* only runners whose latest execution read what was written.
C26_SubscribedToLatestReads ==
  /\ Idle =>
       \A r \in made \ disposed : \A src \in Signals \cup Props :
         Subscribed(r, src) <=> src \in lastReads[r]
  /\ AtReturn =>
       \A j \in DOMAIN log : log[j].ev \in Changing =>
         \A r \in Runners \ disposed : CallsTo(j, r) # {} => r \in log[j].rd

\* C26, what the code does give: a runner is a subscriber of nothing but what
\* its latest execution read, and of every signal it read
C26_SubscribedOnlyToLatestReads ==
  /\ Idle =>
       \A r \in made \ disposed : \A src \in Signals \cup Props :
         /\ Subscribed(r, src) => src \in lastReads[r]
         /\ (src \in Signals /\ src \in lastReads[r]) => Subscribed(r, src)
  /\ AtReturn =>
       \A j \in DOMAIN log : log[j].ev \in Changing =>
         \A r \in Runners \ disposed : CallsTo(j, r) # {} => r \in log[j].rd

\* fn of a computed reads signals and state properties and returns what it read last
Reading(p, c) ==
  \A i \in DOMAIN Body(p, c) :
    Body(p, c)[i].op \in {"get", "getif", "pget", "pgetif"} \/ Body(p, c)[i] = Ret("value")
RECURSIVE Yield(_, _, _)
\* what such an fn returns when run from instruction pc with acc, in the current state
Yield(code, pc, acc) ==
  LET ins == code[pc]
  IN CASE ins.op = "get"    -> Yield(code, pc + 1, value[ins.x])
       [] ins.op = "getif"  -> Yield(code, pc + 1, IF acc > 0 THEN value[ins.x] ELSE acc)
       [] ins.op = "pget"   -> Yield(code, pc + 1, target[ins.x])
       [] ins.op = "pgetif" -> Yield(code, pc + 1, IF acc > 0 THEN target[ins.x] ELSE acc)
       [] OTHER             -> acc

\* C27: every call of a computed's getter returns the value fn yields for the
\* current values of what it reads, at top level and inside a notification
\* pass alike.
C27_GetterReturnsCurrent ==
  \A c \in Computeds :
    (Just(Load(c)) /\ c \in bound /\ Reading(prog, c))
       => Top.acc = Yield(Body(prog, c), 1, Undef)

\* C27, what the code does give: the same for the getter calls made while no
\* notification pass is in progress
C27_GetterReturnsCurrentOutsidePasses ==
  \A c \in Computeds :
    (Just(Load(c)) /\ c \in bound /\ Reading(prog, c)
       /\ \A j \in DOMAIN stack : stack[j].kind = "body")
       => Top.acc = Yield(Body(prog, c), 1, Undef)

\* C28: between calls a runner is in the subscriber set of a dependency source
\* (signal or property cell) exactly when that source is in the runner's
\* recorded dependency set, and a runner whose dispose() has returned is in no
\* subscriber set and has no recorded dependencies.
C28_SubsMatchDeps ==
  /\ Idle => \A r \in Runners : \A src \in Sources :
               Has(subs[src], r) <=> src \in EFFECT_DEPS[r]
  /\ \A e \in Effects :
       (Just(Dispose(e)) /\ e \in disposed) =>
          /\ EFFECT_DEPS[e] = {}
          /\ \A src \in Sources : ~Has(subs[src], e)

\* between calls: E2 is subscribed to s and t, E1 has been disposed
C28_Witness ==
  /\ prog = "effect" /\ Idle /\ "E1" \in disposed
  /\ EFFECT_DEPS["E2"] = {"s", "t"} /\ Has(subs["s"], "E2") /\ Has(subs["t"], "E2")

\* dispose() of E1 has just returned after calling E1's cleanup
C28_WitnessDispose ==
  /\ prog = "effect" /\ Just(Dispose("E1")) /\ "E1" \in disposed
  /\ log # <<>> /\ IsOf(Len(log), "cleanup", "E1")

\* between calls: C1 is subscribed to the cells of state.x and state.y
C28_WitnessCells ==
  /\ prog = "dynamic" /\ Idle /\ Cardinality(EFFECT_DEPS["C1"]) = 2
  /\ \A p \in StProps : propSig[p] \in EFFECT_DEPS["C1"] /\ Has(subs[propSig[p]], "C1")

RECURSIVE Executing(_)
\* the runners whose bodies are executing, outermost first
Executing(st) ==
  IF st = <<>> THEN <<>>
  ELSE Executing(Front(st)) \o
       (IF Last(st).kind = "body" /\ Last(st).owner \in Runners THEN <<Last(st).owner>>
        ELSE <<>>)

\* C29: the Active Runner Stack holds exactly the runners whose bodies are
\* executing, in order, also after a body has thrown; so it is empty between
\* top-level calls, and a read made while no runner body is executing adds no
\* subscriber and records no dependency.
C29_StackBalanced ==
  /\ [](EFFECT_STACK = Executing(stack))
  /\ []((Idle \/ AtReturn) => EFFECT_STACK = <<>>)
  /\ [][((At("get") \/ At("pget") \/ At("getif") \/ At("pgetif")) /\ Executing(stack) = <<>>)
          => UNCHANGED <<subs, EFFECT_DEPS, propSig>>]_vars

\* the body of effect E1 has just thrown during a notification pass: E1 is popped
C29_Witness ==
  /\ prog = "thrower" /\ log # <<>> /\ IsOf(Len(log), "threw", "E1")
  /\ InPass /\ EFFECT_STACK = <<>>

\* two runner bodies are executing, one inside the other
C29_WitnessNested == Len(EFFECT_STACK) = 2 /\ EFFECT_STACK[1] # EFFECT_STACK[2]

\* s.get() at top level while effects exist: nobody was subscribed by it
C29_WitnessOutside ==
  /\ prog = "reentrant" /\ Len(stack) = 1 /\ Just(Get("s")) /\ made # {}
  /\ EFFECT_STACK = <<>> /\ \A r \in Runners : Has(subs["s"], r) => "s" \in lastReads[r]

\* the step reads a signal or a state property (subscribe and inspect are
\* functions of the proxy, not properties of the record)
Reads ==
  /\ At("get") \/ At("pget") \/ ((At("getif") \/ At("pgetif")) /\ Top.acc > 0)
  /\ Instr.x \notin Reserved

\* C30: a read subscribes the innermost runner whose body is executing and no
\* other: the subscriptions and recorded dependencies of every other runner,
\* an outer one included, stay as they are; once the inner body has finished,
\* the outer runner is the innermost again and its reads subscribe it.
C30_ReadsAttachToInnermost ==
  /\ [][(Reads /\ Executing(stack) # <<>>) =>
          LET inner == Last(Executing(stack))
              src   == Instr.x
          IN /\ \A r \in Runners \ {inner} :
                  /\ EFFECT_DEPS'[r] = EFFECT_DEPS[r]
                  /\ \A k \in Sources : Has(subs'[k], r) <=> Has(subs[k], r)
             /\ IF src \in Signals THEN Has(subs'[src], inner) /\ src \in EFFECT_DEPS'[inner]
                ELSE /\ propSig'[src] # None
                     /\ Has(subs'[propSig'[src]], inner)
                     /\ propSig'[src] \in EFFECT_DEPS'[inner]]_vars
  /\ [](Idle => \A r \in made \ disposed : \A src \in Signals \cup Props :
                  Subscribed(r, src) => src \in lastReads[r])

\* computed C1 (reads t) and effect E2 (reads state.x) were created inside the
\* body of E1; E1 has then read state.y: E1 is subscribed to s and y only
C30_Witness ==
  /\ prog = "inner" /\ InBody /\ Top.owner = "E1" /\ Just(PGet("y"))
  /\ {"C1", "E2"} \subseteq bound /\ EFFECT_STACK = <<"E1">>
  /\ EFFECT_DEPS["C1"] = {"t"} /\ Subscribed("E2", "x") /\ ~Subscribed("E1", "x")
  /\ ~Subscribed("E1", "t") /\ Subscribed("E1", "y") /\ Subscribed("E1", "s")

\* C1's body reads t while E1's body is executing
C30_WitnessInner ==
  /\ prog = "inner" /\ EFFECT_STACK = <<"E1", "C1">> /\ Just(Get("t"))
  /\ Has(subs["t"], "C1") /\ ~Has(subs["t"], "E1")

\* C31: re-entrant notification terminates by the === rule alone.  Every call
\* returns, with the Active Runner Stack empty; when a call returns while a
\* live effect reads signal s and writes min(s + 1, MaxVal) back to it, s is at
\* the fixed point MaxVal; and a set that does not change the value starts no
\* notification (it makes no call and goes on to its caller's next statement).
Feeds(e, s) ==
  \E i \in DOMAIN Body(prog, e) :
    /\ Body(prog, e)[i] = I("set", s, "acc", 0)
    /\ i > 1 /\ Body(prog, e)[i - 1] = Get(s)
C31_ReentrantTerminates ==
  /\ (stack # <<>>) ~> (stack = <<>> /\ EFFECT_STACK = <<>>)
  /\ [](\A e \in Effects, s \in Signals :
         (AtReturn /\ Feeds(e, s) /\ e \in made \ disposed)
           => (value[s] = MaxVal /\ EFFECT_STACK = <<>>))
  /\ [][(At("set") /\ value'[Instr.x] = value[Instr.x])
          => (stack' = Stepped /\ log' = Append(log, Last(log')) /\ Last(log').ev = "same")]_vars

\* a set of s to 0 has re-run the effect once for each value up to the fixed
\* point, the last re-run wrote the value s already had, and the set returns
C31_Witness ==
  /\ prog = "reentrant" /\ AtReturn /\ Top.code[1] = SetLit("s", 0)
  /\ "E1" \in made \ disposed
  /\ NumOf("body", "E1") = MaxVal + 1
  /\ \E j \in DOMAIN log : Is(j, "same") /\ log[j].src = "s" /\ log[j].n > 1
  /\ value["s"] = MaxVal /\ EFFECT_STACK = <<>>

\* C32: while a $state write or delete is invoking the global subscribe
\* callbacks, a callback added or removed by one of them does not change which
\* callbacks that pass invokes: exactly those registered when it started, each
\* once.  (Every invocation of a pass records the callbacks registered when
\* the pass started; the first of them is always invoked.)
C32_GlobalPassUsesSnapshot ==
  AtReturn =>
    \A j \in DOMAIN log : (Is(j, "pchanged") \/ Is(j, "pdeleted")) =>
      \A i \in GCalls(j) : \A g \in Callbacks :
        Cardinality(GCallsTo(j, g)) = IF Has(log[i].at, g) THEN 1 ELSE 0


\* a stands before b in the sequence seq
Before(seq, a, b) ==
  \E i, j \in DOMAIN seq : i < j /\ seq[i] = a /\ seq[j] = b
\* the subscribers invoked by the pass of the write logged at j, in order of invocation
Invoked(j) ==
  LET RECURSIVE From(_)
      From(i) == IF i > Len(log) THEN <<>>
                 ELSE IF i \in PassCalls(j) THEN <<log[i].who>> \o From(i + 1)
                 ELSE From(i + 1)
  IN From(j + 1)
\* two notification passes of the same signal, the second one made after the
\* first one is over
Successive(j, j2) ==
  /\ j < j2 /\ Is(j, "changed") /\ Is(j2, "changed")
  /\ log[j].src = log[j2].src /\ log[j].n = log[j2].n

\* C33 as stated: two subscribers of a signal are invoked in the same relative
\* order by every notification pass that invokes both: an order seen in one
\* set never changes in a later set.
C33_OrderNeverChanges ==
  AtReturn =>
    \A j, j2 \in DOMAIN log : Successive(j, j2) =>
      \A a, b \in Runners \cup Callbacks :
        (Before(Invoked(j), a, b) /\ Has(Invoked(j2), a) /\ Has(Invoked(j2), b))
          => Before(Invoked(j2), a, b)

\* C33 amended: a notification pass invokes the subscribers in the order in
\* which they stand in the subscriber set when set() is called, which is the
\* order of their latest subscription: a new subscriber goes behind all
\* present ones, and two subscribers that both stay keep their relative order.
\* A runner leaves the set and subscribes again each time it runs, so it moves
\* behind the subscribers that did not run again.
C33_LatestSubscriptionOrder ==
  /\ [](AtReturn => \A j \in DOMAIN log : Is(j, "changed") => Invoked(j) = log[j].at)
  /\ [][\A s \in DOMAIN subs : \A a, b \in Runners \cup Callbacks :
          /\ (~Has(subs[s], a) /\ Has(subs'[s], a)) => Last(subs'[s]) = a
          /\ (Before(subs[s], a, b) /\ Has(subs'[s], a) /\ Has(subs'[s], b))
               => Before(subs'[s], a, b)]_vars

\* E1 subscribed to s before K1; s.set(1) invokes E1 then K1, and the next
\* s.set(2) invokes K1 then E1
C33_Witness ==
  /\ prog = "order" /\ AtReturn
  /\ \E j, j2 \in DOMAIN log :
       /\ Successive(j, j2)
       /\ log[j].at = <<"E1", "K1">> /\ Invoked(j) = <<"E1", "K1">>
       /\ log[j2].at = <<"K1", "E1">> /\ Invoked(j2) = <<"K1", "E1">>

\* the body of effect e calls a computed's getter and reads no signal and no
\* state property itself
ViaGetterOnly(e) ==
  /\ \E i \in DOMAIN Body(prog, e) : Body(prog, e)[i].op = "load"
  /\ \A i \in DOMAIN Body(prog, e) :
       Body(prog, e)[i].op \notin {"get", "getif", "pget", "pgetif"}

\* C34: a computed is no dependency source: an effect whose body calls a
\* computed's getter and reads no signal or state property itself is
\* subscribed to nothing, and no notification pass ever runs it: a change of
\* the computed's dependencies does not re-run it.
C34_ComputedIsNoSource ==
  \A e \in Effects :
    (e \in made /\ ViaGetterOnly(e)) =>
      /\ EFFECT_DEPS[e] = {}
      /\ \A k \in DOMAIN subs : ~Has(subs[k], e)
      /\ \A j \in 2 .. Len(stack) :
           (stack[j].kind = "body" /\ stack[j].owner = e) => stack[j - 1].kind # "pass"
      /\ (AtReturn /\ Top.code[1].op = "set") => NumOf("body", e) = 0

\* E1 stored C1() = 0 in state.y when it was created; s.set(1) has re-run
\* C1's fn, which now caches 1, and has not run E1: state.y is still 0
C34_Witness ==
  /\ prog = "viacomp" /\ AtReturn /\ Top.code[1] = SetLit("s", 1)
  /\ "E1" \in made \ disposed /\ target["y"] = 0
  /\ log # <<>> /\ Is(1, "changed") /\ NumOf("body", "C1") = 1 /\ cached["C1"] = 1
  /\ NumOf("body", "E1") = 0 /\ EFFECT_DEPS["E1"] = {}

\* C35: subscribe and inspect are never data properties of a proxy: reading
\* them registers no dependency and makes no cell for them; assigning to them
\* or deleting them leaves the record without such a property, and no runner
\* and no global callback is invoked for them.
C35_ReservedNotData ==
  \A n \in Reserved :
    /\ propSig[n] = None
    /\ \A r \in Runners : (InBody /\ Top.owner = r /\ Top.pc > 1
                            /\ \A i \in 1 .. (Top.pc - 1) : Top.code[i].op = "pget" /\ Top.code[i].x \in Reserved)
                           => EFFECT_DEPS[r] = {}
    /\ target[n] = Undef
    /\ \A j \in DOMAIN log : log[j].ev \in {"call", "gcall"} => log[j].src # n
    /\ \A j \in DOMAIN stack : stack[j].kind \in {"pass", "gpass"} => stack[j].src # n

\* C36: createComputed(fn) does not execute fn: when it has returned the
\* computed is dirty, nothing is cached and fn has not run; the execution of
\* fn that finds nothing computed yet is made by a call of the getter.
C36_CreationDoesNotExecute ==
  \A c \in Computeds :
    /\ (Len(stack) = 1 /\ Just(MkComp(c)))
         => (dirty[c] /\ cached[c] = Undef /\ NumOf("body", c) = 0)
    /\ \A j \in DOMAIN stack :
         (stack[j].kind = "body" /\ stack[j].owner = c /\ dirty[c] /\ cached[c] = Undef)
           => /\ j > 1 /\ stack[j - 1].kind = "body" /\ stack[j - 1].pc > 1
              /\ stack[j - 1].code[stack[j - 1].pc - 1] = Ensure(c)

\* the listener of registration r for event type ev stays on the element in this step
Kept(r, ev) ==
  Has(listeners, Listener(ev, Wrapped(r, ev))) => Has(listeners', Listener(ev, Wrapped(r, ev)))

\* C37: registrations are independent: the unbind function of one registration,
\* and the removal a once registration makes after its handler has been
\* called, take no listener of another registration off the element, even one
\* of the same handler for the same event.
C37_RegistrationsIndependent ==
  [][/\ \A r \in DOMAIN regs :
          (r \in DOMAIN regs' /\ ~regs[r].unbound /\ regs'[r].unbound)
            => \A r2 \in DOMAIN regs \ {r} : \A ev \in EvNames : Kept(r2, ev)
     /\ (estack # <<>> /\ ETop.kind = "wrapped" /\ ETop.pc = 2)
          => \A r2 \in DOMAIN regs \ {ETop.w.reg} : \A ev \in EvNames : Kept(r2, ev)]_vars
====
